---- MODULE Spec2Model ----
(***************************************************************************)
(* Verification model of the NPL client: the Upcoming match cards          *)
(* (useCountdown, ProgressBar, MatchCard) and their interval timers, the   *)
(* Upcoming day filter and its 7-day window, the AuthProvider session      *)
(* store with the routes and the login, request() of api.js, the Register  *)
(* and Footer forms, the matches store of localStorage and the Admin page. *)
(*                                                                         *)
(* JavaScript values are modelled as follows.                              *)
(*  - strings are TLA+ strings; a character is a string of length 1.       *)
(*  - a number that may be NaN is a record [nan, v] (see Num, NaN).        *)
(*  - a Date is the record [y, mo, d, ms] of its local calendar fields     *)
(*    (mo is 0-based as in getMonth) and the milliseconds since local      *)
(*    midnight; the difference of two Dates is their distance in ms.       *)
(*  - null / undefined / an absent storage key are the strings NULL,       *)
(*    UNDEFINED and ABSENT below, which no program value equals.           *)
(***************************************************************************)
EXTENDS Integers, Sequences, FiniteSets, TLC

VARIABLES
    cardMatch,      \* MatchCard: the match prop {date, startTime, status}
    cardNow,        \* MatchCard: the `now` state (a Date)
    cardTicks,      \* MatchCard: interval callbacks run since mount
    cardView,       \* MatchCard: what the last render produced
    upClock,        \* the wall clock the Upcoming view reads (a Date)
    upMountNow,     \* Upcoming: `now` as read when the days memo was built
    upSteps,        \* steps the wall clock has made
    upProp,         \* Upcoming: the matches prop, when one is given
    days,           \* Upcoming: the memoised 7 day buckets
    selectedDayIndex, \* Upcoming: the selected day tab
    apiMatches,     \* Upcoming: the apiMatches state
    apiStatus,      \* Upcoming: "pending", "resolved" or "rejected" list call
    upView,         \* Upcoming: effectiveMatches and filtered of the last render
    token,          \* AuthProvider: the token state
    user,           \* AuthProvider: the user state
    lsToken,        \* localStorage: the value of the token key
    lsUser,         \* localStorage: the value of the user key
    tokenEffect,    \* AuthProvider: the effect on [token], when it waits to run
    userEffect,     \* AuthProvider: the effect on [user], when it waits to run
    authLast,       \* AuthProvider: the last of mount, login, logout
    location,       \* router: the location the routes are rendered at
    requested,      \* router: the pathname last asked for
    loginPending,   \* Login: the login request in flight, if any
    lastRequest,    \* api.js: the request issued last
    response,       \* api.js request: the response fetch resolved to
    outcome,        \* api.js request: how the promise of request settled
    reg,            \* Register: its state, the register calls in flight
    foot,           \* Footer: the subscribe form, its calls and timers
    lsMatches,      \* localStorage: the value of the matches key
    listing,        \* matches store: what the last getMatches() returned
    storeUsed,      \* matches store: whether the store is followed
    admin,          \* Admin: mounted, its list call and the data of it
    items,          \* Admin: the items state
    editing,        \* Admin: the editing state (the match in the Editor)
    inFlight,       \* Admin: the create/update/remove/setLive calls in flight
    issued,         \* Admin: the calls issued so far
    liveLoading,    \* SetLiveButton: the rows whose button is loading
    cards,          \* the list of cards: per key, the MatchCard mounted there
    intervals,      \* the interval timers that are active
    handles         \* the handles setInterval has returned so far

cardVars == <<cardMatch, cardNow, cardTicks, cardView>>

upVars == <<upClock, upMountNow, upSteps, upProp, days,
            selectedDayIndex, apiMatches, apiStatus, upView>>

authVars == <<token, user, lsToken, lsUser, tokenEffect, userEffect, authLast,
              location, requested, loginPending, lastRequest>>

requestVars == <<response, outcome>>

registerVars == <<reg>>

footerVars == <<foot>>

storeVars == <<lsMatches, listing, storeUsed>>

adminVars == <<admin, items, editing, inFlight, issued, liveLoading>>

pagesVars == <<registerVars, footerVars, storeVars, adminVars>>

deckVars == <<cards, intervals, handles>>

nonCardVars == <<upVars, authVars, requestVars, pagesVars, deckVars>>
nonUpVars == <<cardVars, authVars, requestVars, pagesVars, deckVars>>
nonAuthVars == <<cardVars, upVars, requestVars, pagesVars, deckVars>>
nonRequestVars == <<cardVars, upVars, authVars, pagesVars, deckVars>>
nonPagesVars == <<cardVars, upVars, authVars, requestVars, deckVars>>
nonDeckVars == <<cardVars, upVars, authVars, requestVars, pagesVars>>

vars == <<cardVars, upVars, authVars, requestVars, pagesVars, deckVars>>

----------------------------------------------------------------------------
(* Bounds of the model *)

\* interval callbacks a card runs in one behaviour
MaxTicks == 2
\* lateness of an interval callback beyond its nominal second, in ms
MaxJitterMs == 1
\* steps of the wall clock while the Upcoming view is watched
MaxClockSteps == 2
\* matches in a list the API returns
MaxApiMatches == 2
\* calls one form or page issues in one behaviour
MaxRequests == 2
\* matches the matches key holds
MaxStored == 2
\* interval timers the cards of a list start in one behaviour
MaxHandles == 3

----------------------------------------------------------------------------
(* JavaScript primitives *)

NULL == "<null>"
UNDEFINED == "<undefined>"
ABSENT == "<absent>"

\* no call of request is followed
RequestIdle ==
    /\ response = UNDEFINED
    /\ outcome = UNDEFINED

\* a Register page that is not mounted
RegisterUnmounted ==
    [mounted |-> FALSE, password |-> "", confirm |-> "", loading |-> FALSE,
     error |-> "", success |-> "", inFlight |-> 0, calls |-> 0, timers |-> 0]

\* a Footer that is not mounted
FooterUnmounted ==
    [mounted |-> FALSE, handler |-> FALSE, email |-> "", status |-> "idle",
     errorMsg |-> "", inFlight |-> 0, calls |-> 0, subscribed |-> <<>>,
     timers |-> 0]

RegisterIdle == reg = RegisterUnmounted

FooterIdle == foot = FooterUnmounted

\* what getMatches() returned last, and that it has not been called
Listing(value) == [returned |-> TRUE, value |-> value]
NotListed == [returned |-> FALSE, value |-> <<>>]

\* the matches store is not used
StoreIdle ==
    /\ lsMatches = ABSENT
    /\ listing = NotListed
    /\ storeUsed = FALSE

\* the Editor when it is closed (editing is null), and a match with no
\* field filled in; `teams` is the _id of the row whose teams array the
\* match of the Editor holds, ABSENT when it holds an array of its own
BlankMatch ==
    [_id |-> ABSENT, date |-> "", startTime |-> "", nameA |-> "",
     nameB |-> "", status |-> "scheduled"]
EditorClosed == [open |-> FALSE, match |-> BlankMatch, teams |-> ABSENT]

\* an Admin page that is not mounted
AdminIdle ==
    /\ admin = [mounted |-> FALSE, list |-> "none", data |-> <<>>]
    /\ items = <<>>
    /\ editing = EditorClosed
    /\ inFlight = {}
    /\ issued = 0
    /\ liveLoading = {}

\* the keys of the list a MatchCard is rendered under, and a key with no
\* card mounted
CardKeys == {"m1", "m2"}
NoCard == [mounted |-> FALSE, match |-> UNDEFINED, t |-> 0, ticks |-> 0]

\* no card of the list is mounted, no timer is active
DeckIdle ==
    /\ cards = [key \in CardKeys |-> NoCard]
    /\ intervals = {}
    /\ handles = 0

\* none of the pages and forms is followed
PagesIdle == RegisterIdle /\ FooterIdle /\ StoreIdle /\ AdminIdle

MathMax(a, b) == IF a >= b THEN a ELSE b
MathMin(a, b) == IF a <= b THEN a ELSE b

Digit == <<"0", "1", "2", "3", "4", "5", "6", "7", "8", "9">>

CharAt(s, i) == SubSeq(s, i, i)

IsDigit(c) == c \in {"0", "1", "2", "3", "4", "5", "6", "7", "8", "9"}

DigitValue(c) == (CHOOSE k \in 1..10 : Digit[k] = c) - 1

\* Number.prototype.toString for a non-negative integer
RECURSIVE NumberToString(_)
NumberToString(n) ==
    IF n < 10 THEN Digit[n + 1]
    ELSE NumberToString(n \div 10) \o Digit[(n % 10) + 1]

\* String.prototype.padStart(width, "0")
RECURSIVE PadStart(_, _)
PadStart(s, width) ==
    IF Len(s) >= width THEN s ELSE PadStart("0" \o s, width)

Num(n) == [nan |-> FALSE, v |-> n]
NaN == [nan |-> TRUE, v |-> 0]

\* a === b on numbers: NaN equals nothing
StrictEq(a, b) == ~a.nan /\ ~b.nan /\ a.v = b.v

\* index of the first character of s at or after i that is not a digit
RECURSIVE DigitsEnd(_, _)
DigitsEnd(s, i) ==
    IF i <= Len(s) /\ IsDigit(CharAt(s, i)) THEN DigitsEnd(s, i + 1) ELSE i

\* value of the decimal digits s[i..j-1], acc being the value read so far
RECURSIVE DigitsValue(_, _, _, _)
DigitsValue(s, i, j, acc) ==
    IF i >= j THEN acc
    ELSE DigitsValue(s, i + 1, j, (acc * 10) + DigitValue(CharAt(s, i)))

RECURSIVE SkipSpaces(_, _)
SkipSpaces(s, i) ==
    IF i <= Len(s) /\ CharAt(s, i) = " " THEN SkipSpaces(s, i + 1) ELSE i

\* parseInt(s, 10): leading blanks, an optional sign, then the longest run
\* of digits; whatever follows is ignored; no digit at all gives NaN
ParseInt(s) ==
    LET a == SkipSpaces(s, 1)
        signed == a <= Len(s) /\ CharAt(s, a) \in {"+", "-"}
        b == IF signed THEN a + 1 ELSE a
        e == DigitsEnd(s, b)
        mag == DigitsValue(s, b, e, 0)
    IN  IF e = b THEN NaN
        ELSE IF signed /\ CharAt(s, a) = "-" THEN Num(0 - mag)
        ELSE Num(mag)

\* index of the first sep at or after i, or 0
RECURSIVE IndexOf(_, _, _)
IndexOf(s, sep, i) ==
    IF i > Len(s) THEN 0
    ELSE IF CharAt(s, i) = sep THEN i
    ELSE IndexOf(s, sep, i + 1)

\* String.prototype.split(sep) for a one-character separator
RECURSIVE Split(_, _)
Split(s, sep) ==
    LET k == IndexOf(s, sep, 1)
    IN  IF k = 0 THEN <<s>>
        ELSE <<SubSeq(s, 1, k - 1)>> \o Split(SubSeq(s, k + 1, Len(s)), sep)

\* Array.prototype.map((n) => parseInt(n, 10))
MapParseInt(parts) == [i \in 1..Len(parts) |-> ParseInt(parts[i])]

----------------------------------------------------------------------------
(* The Date object, local time *)

MsPerSecond == 1000
MsPerMinute == 60 * 1000
MsPerHour == 60 * 60 * 1000
MsPerDay == 24 * 60 * 60 * 1000

IsLeapYear(y) == (y % 4 = 0 /\ y % 100 # 0) \/ y % 400 = 0

\* length of month mo (0 = January) of year y
DaysInMonth(y, mo) ==
    IF mo = 1 THEN (IF IsLeapYear(y) THEN 29 ELSE 28)
    ELSE IF mo \in {3, 5, 8, 10} THEN 30
    ELSE 31

\* the Date constructor's carry of out-of-range month and day fields
RECURSIVE NormalizeYMD(_, _, _)
NormalizeYMD(y, mo, d) ==
    IF mo > 11 THEN NormalizeYMD(y + 1, mo - 12, d)
    ELSE IF mo < 0 THEN NormalizeYMD(y - 1, mo + 12, d)
    ELSE IF d > DaysInMonth(y, mo) THEN NormalizeYMD(y, mo + 1, d - DaysInMonth(y, mo))
    ELSE IF d < 1 THEN
        (IF mo = 0 THEN NormalizeYMD(y - 1, 11, d + 31)
         ELSE NormalizeYMD(y, mo - 1, d + DaysInMonth(y, mo - 1)))
    ELSE [y |-> y, mo |-> mo, d |-> d]

\* new Date(y, mo, d, h, mi, s)
NewDate(y, mo, d, h, mi, s) ==
    LET total == (h * MsPerHour) + (mi * MsPerMinute) + (s * MsPerSecond)
        ymd == NormalizeYMD(y, mo, d + (total \div MsPerDay))
    IN  [y |-> ymd.y, mo |-> ymd.mo, d |-> ymd.d, ms |-> total % MsPerDay]

\* the Date delta milliseconds after date
DateAddMs(date, delta) ==
    LET total == date.ms + delta
        ymd == NormalizeYMD(date.y, date.mo, date.d + (total \div MsPerDay))
    IN  [y |-> ymd.y, mo |-> ymd.mo, d |-> ymd.d, ms |-> total % MsPerDay]

RECURSIVE DaysBeforeMonth(_, _)
DaysBeforeMonth(y, mo) ==
    IF mo = 0 THEN 0 ELSE DaysBeforeMonth(y, mo - 1) + DaysInMonth(y, mo - 1)

\* days from the start of the proleptic calendar to the date
DayNumber(date) ==
    LET p == date.y - 1
    IN  (365 * p) + (p \div 4) - (p \div 100) + (p \div 400)
        + DaysBeforeMonth(date.y, date.mo) + date.d

\* a - b on two Dates: the milliseconds from b to a
DateDiff(a, b) == ((DayNumber(a) - DayNumber(b)) * MsPerDay) + (a.ms - b.ms)

----------------------------------------------------------------------------
(* Upcoming.jsx: useCountdown, pad, ProgressBar, MatchCard *)

TenMinutesMs == 10 * 60 * 1000
TwoHoursMs == 2 * 60 * 60 * 1000

pad(n) == PadStart(NumberToString(n), 2)

\* the early returns of useCountdown taken in the wrong order: the clock is
\* consulted before the declared status
useCountdown_ClockFirst(startDate, status, now) ==
    LET diffMs == DateDiff(startDate, now)
    IN  IF diffMs <= 0
        THEN [diffMs |-> diffMs, countdownLabel |-> "Starting", state |-> "live"]
        ELSE IF status = "completed"
        THEN [diffMs |-> diffMs, countdownLabel |-> "Ended", state |-> "completed"]
        ELSE [diffMs |-> diffMs, countdownLabel |-> "In Progress", state |-> "live"]

\* useCountdown without its early return for a declared status of live: a
\* live match is then dated by the clock like a scheduled one
useCountdown_NoLiveReturn(startDate, status, now) ==
    LET diffMs == DateDiff(startDate, now)
        abs == MathMax(diffMs, 0)
        seconds == (abs \div 1000) % 60
        minutes == (abs \div (60 * 1000)) % 60
        hours == abs \div (60 * 60 * 1000)
    IN  IF status = "completed"
        THEN [diffMs |-> diffMs, countdownLabel |-> "Ended", state |-> "completed"]
        ELSE IF diffMs <= 0
        THEN [diffMs |-> diffMs, countdownLabel |-> "Starting", state |-> "live"]
        ELSE [diffMs |-> diffMs,
              countdownLabel |->
                  IF hours > 0
                  THEN pad(hours) \o ":" \o pad(minutes) \o ":" \o pad(seconds)
                  ELSE pad(minutes) \o ":" \o pad(seconds),
              state |-> IF diffMs <= TenMinutesMs THEN "soon" ELSE "scheduled"]

\* the comparisons of useCountdown made strict
useCountdown_Strict(startDate, status, now) ==
    LET diffMs == DateDiff(startDate, now)
        abs == MathMax(diffMs, 0)
        seconds == (abs \div 1000) % 60
        minutes == (abs \div (60 * 1000)) % 60
        hours == abs \div (60 * 60 * 1000)
    IN  IF status = "completed"
        THEN [diffMs |-> diffMs, countdownLabel |-> "Ended", state |-> "completed"]
        ELSE IF status = "live"
        THEN [diffMs |-> diffMs, countdownLabel |-> "In Progress", state |-> "live"]
        ELSE IF diffMs < 0
        THEN [diffMs |-> diffMs, countdownLabel |-> "Starting", state |-> "live"]
        ELSE [diffMs |-> diffMs,
              countdownLabel |->
                  IF hours > 0
                  THEN pad(hours) \o ":" \o pad(minutes) \o ":" \o pad(seconds)
                  ELSE pad(minutes) \o ":" \o pad(seconds),
              state |-> IF diffMs < TenMinutesMs THEN "soon" ELSE "scheduled"]

\* the minutes of useCountdown not wrapped modulo 60
useCountdown_MinutesUnwrapped(startDate, status, now) ==
    LET diffMs == DateDiff(startDate, now)
        abs == MathMax(diffMs, 0)
        seconds == (abs \div 1000) % 60
        minutes == abs \div (60 * 1000)
        hours == abs \div (60 * 60 * 1000)
    IN  IF status = "completed"
        THEN [diffMs |-> diffMs, countdownLabel |-> "Ended", state |-> "completed"]
        ELSE IF status = "live"
        THEN [diffMs |-> diffMs, countdownLabel |-> "In Progress", state |-> "live"]
        ELSE IF diffMs <= 0
        THEN [diffMs |-> diffMs, countdownLabel |-> "Starting", state |-> "live"]
        ELSE [diffMs |-> diffMs,
              countdownLabel |->
                  IF hours > 0
                  THEN pad(hours) \o ":" \o pad(minutes) \o ":" \o pad(seconds)
                  ELSE pad(minutes) \o ":" \o pad(seconds),
              state |-> IF diffMs <= TenMinutesMs THEN "soon" ELSE "scheduled"]

useCountdown(startDate, status, now) ==
    LET diffMs == DateDiff(startDate, now)
        abs == MathMax(diffMs, 0)
        seconds == (abs \div 1000) % 60
        minutes == (abs \div (60 * 1000)) % 60
        hours == abs \div (60 * 60 * 1000)
    IN  IF status = "completed"
        THEN [diffMs |-> diffMs, countdownLabel |-> "Ended", state |-> "completed"]
        ELSE IF status = "live"
        THEN [diffMs |-> diffMs, countdownLabel |-> "In Progress", state |-> "live"]
        ELSE IF diffMs <= 0
        THEN [diffMs |-> diffMs, countdownLabel |-> "Starting", state |-> "live"]
        ELSE [diffMs |-> diffMs,
              countdownLabel |->
                  IF hours > 0
                  THEN pad(hours) \o ":" \o pad(minutes) \o ":" \o pad(seconds)
                  ELSE pad(minutes) \o ":" \o pad(seconds),
              state |-> IF diffMs <= TenMinutesMs THEN "soon" ELSE "scheduled"]

\* the clamp of ProgressBar without its floor of 3
ProgressBar_NoFloor(totalMs, remainingMs, state) ==
    LET pctScaled ==
            IF state = "live" \/ state = "completed" THEN 100 * totalMs
            ELSE (100 * totalMs) - (remainingMs * 100)
    IN  MathMin(MathMax(pctScaled, 0), 100 * totalMs)

\* The width of the bar, in percent, times totalMs: pct is the real number
\* 100 - (remainingMs / totalMs) * 100, and the model keeps pct * totalMs,
\* which is an integer, so that the clamp to [3, 100] is exact.
ProgressBar(totalMs, remainingMs, state) ==
    LET pctScaled ==
            IF state = "live" \/ state = "completed" THEN 100 * totalMs
            ELSE (100 * totalMs) - (remainingMs * 100)
    IN  MathMin(MathMax(pctScaled, 3 * totalMs), 100 * totalMs)

\* the destructuring default of MatchCard: status = "scheduled" when absent
StatusOf(match) == IF match.status = UNDEFINED THEN "scheduled" ELSE match.status

\* the startDate memo of MatchCard, for a date of three numeric components
\* and a start time of two
StartDateOf(match) ==
    LET hm == MapParseInt(Split(match.startTime, ":"))
        dParts == MapParseInt(Split(match.date, "-"))
    IN  NewDate(dParts[1].v, dParts[2].v - 1, dParts[3].v, hm[1].v, hm[2].v, 0)

\* One render of MatchCard: the countdown triple and the progress bar, which
\* is rendered unless the derived state is completed.
MatchCard(match, now) ==
    LET cd == useCountdown(StartDateOf(match), StatusOf(match), now)
    IN  [diffMs |-> cd.diffMs,
         countdownLabel |-> cd.countdownLabel,
         state |-> cd.state,
         barShown |-> cd.state # "completed",
         barWidth |->
             IF cd.state # "completed"
             THEN ProgressBar(TwoHoursMs, MathMin(cd.diffMs, TwoHoursMs), cd.state)
             ELSE 0]

----------------------------------------------------------------------------
(* The inputs of the card model *)

\* declared statuses: the three of the data model, "soon" (which the Admin
\* editor's status select also offers) and an absent status
CardStatuses == {"scheduled", "live", "completed", "soon", UNDEFINED}

CardDates == {"2025-12-31", "2026-03-01"}

CardStartTimes == {"00:00", "19:30"}

CardMatches ==
    {[date |-> dt, startTime |-> st, status |-> s] :
        dt \in CardDates, st \in CardStartTimes, s \in CardStatuses}

\* start instant minus now at mount, in ms: after the start, at it, around
\* one second, one minute, ten minutes, one hour, the 2-hour window of the
\* progress bar, and beyond 100 hours (a match 5 days ahead)
MountRemainings ==
    {0 - 5000, 0 - 1, 0, 1, 999, 1000, 59999, 60000, 9 * MsPerMinute,
     TenMinutesMs - 1, TenMinutesMs, TenMinutesMs + 1, 11 * MsPerMinute,
     MsPerHour - 1, MsPerHour, 3661000, 6984000, TwoHoursMs - 1000,
     TwoHoursMs, 3 * MsPerHour, (100 * MsPerHour) - 1000, 100 * MsPerHour,
     (114 * MsPerHour) + 59000}

TickDeltas == MsPerSecond..(MsPerSecond + MaxJitterMs)

----------------------------------------------------------------------------
(* MatchCard as a state machine *)

\* mount: now is read from the clock and the card renders
CardInit ==
    /\ cardMatch \in CardMatches
    /\ \E r \in MountRemainings : cardNow = DateAddMs(StartDateOf(cardMatch), 0 - r)
    /\ cardTicks = 0
    /\ cardView = MatchCard(cardMatch, cardNow)

\* the interval callback: setNow(new Date()), then the card renders again
CardTick ==
    /\ cardTicks < MaxTicks
    /\ \E delta \in TickDeltas : cardNow' = DateAddMs(cardNow, delta)
    /\ cardTicks' = cardTicks + 1
    /\ cardView' = MatchCard(cardMatch, cardNow')
    /\ UNCHANGED cardMatch
    /\ UNCHANGED nonCardVars

\* the parent passes a new status for the same match; the card renders again
CardStatusChange ==
    /\ \E s \in CardStatuses :
          /\ s # cardMatch.status
          /\ cardMatch' = [cardMatch EXCEPT !.status = s]
    /\ cardView' = MatchCard(cardMatch', cardNow)
    /\ UNCHANGED <<cardNow, cardTicks>>
    /\ UNCHANGED nonCardVars

\* no card is mounted
CardIdle ==
    /\ cardMatch = UNDEFINED
    /\ cardNow = UNDEFINED
    /\ cardTicks = 0
    /\ cardView = UNDEFINED

\* no Upcoming view is mounted
UpcomingIdle ==
    /\ upClock = UNDEFINED
    /\ upMountNow = UNDEFINED
    /\ upSteps = 0
    /\ upProp = UNDEFINED
    /\ days = <<>>
    /\ selectedDayIndex = 0
    /\ apiMatches = <<>>
    /\ apiStatus = "pending"
    /\ upView = UNDEFINED

\* no AuthProvider is mounted
AuthIdle ==
    /\ token = NULL
    /\ user = UNDEFINED
    /\ lsToken = ABSENT
    /\ lsUser = ABSENT
    /\ tokenEffect = UNDEFINED
    /\ userEffect = UNDEFINED
    /\ authLast = "mount"
    /\ location = UNDEFINED
    /\ requested = UNDEFINED
    /\ loginPending = UNDEFINED
    /\ lastRequest = UNDEFINED

InitCountdown == CardInit /\ UpcomingIdle /\ AuthIdle /\ RequestIdle /\ PagesIdle
    /\ DeckIdle

NextCountdown == CardTick \/ CardStatusChange

SpecCountdown == InitCountdown /\ [][NextCountdown]_vars

----------------------------------------------------------------------------
(* Upcoming.jsx: the view, its 7 day buckets and the day filter *)

\* the calendar day of a Date
DayOf(date) == [y |-> date.y, mo |-> date.mo, d |-> date.d]

\* the iso helper of demoMatches: yyyy-mm-dd of a Date
iso(date) ==
    NumberToString(date.y) \o "-" \o PadStart(NumberToString(date.mo + 1), 2)
        \o "-" \o PadStart(NumberToString(date.d), 2)

\* the make helper of demoMatches, with the fields the view computes with
make(today, offsetDays, startTime, id) ==
    [id |-> id,
     date |-> iso(NewDate(today.y, today.mo, today.d + offsetDays, 0, 0, 0)),
     startTime |-> startTime,
     status |-> "scheduled"]

demoMatches(today) ==
    <<make(today, 0, "19:30", "m1"),
      make(today, 0, "15:00", "m2"),
      make(today, 1, "14:00", "m3"),
      make(today, 2, "13:30", "m4"),
      make(today, 3, "16:00", "m5"),
      make(today, 4, "18:00", "m6")>>

\* the body of the days memo: the 7 local midnights from today on
BuildDays(now) ==
    [i \in 1..7 |-> NewDate(now.y, now.mo, now.d + (i - 1), 0, 0, 0)]

\* useMemo with dependencies [] recomputed on every render
DaysMemo_Recompute(cached, now) == BuildDays(now)

\* useMemo(..., []) on a render after the first: the cached value
DaysMemo(cached, now) == cached

\* x - 1 on a number that may be NaN
MinusOne(x) == IF x.nan THEN NaN ELSE Num(x.v - 1)

\* arr[i] === n for a 1-based i; an index past the end reads undefined
ElementIs(arr, i, n) == i <= Len(arr) /\ StrictEq(arr[i], Num(n))

\* the filter callback without its check of the number of components
DayFilterAccepts_NoLengthCheck(m, target) ==
    LET dateParts == MapParseInt(Split(m.date, "-"))
    IN  /\ ElementIs(dateParts, 1, target.y)
        /\ 2 <= Len(dateParts) /\ StrictEq(MinusOne(dateParts[2]), Num(target.mo))
        /\ ElementIs(dateParts, 3, target.d)

\* the filter callback comparing the 1-based month of the date with
\* getMonth(), which is 0-based
DayFilterAccepts_MonthOffByOne(m, target) ==
    LET dateParts == MapParseInt(Split(m.date, "-"))
    IN  IF Len(dateParts) # 3 THEN FALSE
        ELSE /\ StrictEq(dateParts[1], Num(target.y))
             /\ StrictEq(dateParts[2], Num(target.mo))
             /\ StrictEq(dateParts[3], Num(target.d))

\* the callback of the filter: does match m fall on the day of target
DayFilterAccepts(m, target) ==
    LET dateParts == MapParseInt(Split(m.date, "-"))
    IN  IF Len(dateParts) # 3 THEN FALSE
        ELSE /\ StrictEq(dateParts[1], Num(target.y))
             /\ StrictEq(MinusOne(dateParts[2]), Num(target.mo))
             /\ StrictEq(dateParts[3], Num(target.d))

\* Array.prototype.filter with the callback above
RECURSIVE FilterByDay(_, _)
FilterByDay(list, target) ==
    IF list = <<>> THEN <<>>
    ELSE (IF DayFilterAccepts(Head(list), target) THEN <<Head(list)>> ELSE <<>>)
             \o FilterByDay(Tail(list), target)

\* the filtered memo: the matches of the selected day
Filtered(effectiveMatches, dayList, index) ==
    FilterByDay(effectiveMatches, dayList[index + 1])

\* a render of Upcoming that lists the API matches whatever their number
RenderUpcoming_NoFallback(prop, api, dayList, index, clock) ==
    [effectiveMatches |-> api,
     filtered |-> Filtered(api, dayList, index)]

\* One render of Upcoming: effectiveMatches is the API list when it is not
\* empty and the matches prop otherwise, whose default demoMatches() is
\* evaluated by the render.
RenderUpcoming(prop, api, dayList, index, clock) ==
    LET matches == IF prop.given THEN prop.list ELSE demoMatches(clock)
        effectiveMatches == IF Len(api) > 0 THEN api ELSE matches
    IN  [effectiveMatches |-> effectiveMatches,
         filtered |-> Filtered(effectiveMatches, dayList, index)]

----------------------------------------------------------------------------
(* The inputs of the Upcoming model *)

\* the wall clock at the first mount: a morning four days before the new
\* year, and a late evening three days before 29 February
MountClocks ==
    {NewDate(2025, 11, 28, 10, 0, 0), NewDate(2024, 1, 26, 23, 0, 0)}

ClockStepMs == 12 * MsPerHour

Match(id, date, startTime, status) ==
    [id |-> id, date |-> date, startTime |-> startTime, status |-> status]

\* matches the API may return: well-formed dates inside both windows, two
\* matches on one day, a date that names no day, and a date with a time
\* attached
ApiPool ==
    {Match("a1", "2025-12-28", "19:30", "scheduled"),
     Match("a2", "2025-12-28", "09:00", "live"),
     Match("a4", "2024-02-29", "18:00", "scheduled"),
     Match("a5", "2025-13-40", "12:00", "scheduled"),
     Match("a6", "2024-03-01T18:00", "18:00", "scheduled")}

\* the lists of at most n matches of the pool, no match twice
RECURSIVE ListsOver(_, _)
ListsOver(pool, n) ==
    IF n = 0 THEN {<<>>}
    ELSE LET shorter == ListsOver(pool, n - 1)
         IN  shorter \cup
                 {Append(l, m) : <<l, m>> \in
                     {<<l, m>> \in shorter \X pool :
                         \A k \in 1..Len(l) : l[k] # m}}

ApiLists == ListsOver(ApiPool, MaxApiMatches)

\* date strings that name no calendar day: months and days that do not
\* exist, components that are not numbers, fewer or more than three
\* components
MalformedDateList ==
    <<"2025-13-40", "2024-02-30", "2025-02-29", "2025-12-32", "2025-00-28",
      "2025-12-00", "2026-01-00", "", "20251228", "2025/12/28", "2025-12",
      "2025-12-28-1", "2025-12-30-1", "-2025-12-28", "abcd-ef-gh",
      "2025-12-xx", "2025--28">>

\* date strings that name a day without being its yyyy-mm-dd form: no zero
\* padding, or a time attached to the day
LenientDateList ==
    <<[str |-> "2026-1-1", day |-> [y |-> 2026, mo |-> 0, d |-> 1]],
      [str |-> "2024-03-01T18:00", day |-> [y |-> 2024, mo |-> 2, d |-> 1]],
      [str |-> "2024-2-29", day |-> [y |-> 2024, mo |-> 1, d |-> 29]]>>

\* well-formed dates in and around both windows of the model
WellFormedDateList ==
    <<"2025-12-27", "2025-12-28", "2025-12-28", "2025-12-31", "2025-12-31",
      "2026-01-01", "2026-01-03", "2026-01-04", "2024-02-25", "2024-02-26",
      "2024-02-29", "2024-02-29", "2024-03-01", "2024-03-03", "2024-03-04",
      "2025-02-28", "2024-12-28", "2025-11-28">>

CatalogueDates ==
    MalformedDateList \o [k \in 1..Len(LenientDateList) |-> LenientDateList[k].str]
        \o WellFormedDateList

\* one match per date of the catalogue, start times and statuses varying
CatalogueMatches ==
    [k \in 1..Len(CatalogueDates) |->
        Match("c" \o NumberToString(k), CatalogueDates[k],
              IF k % 2 = 0 THEN "00:00" ELSE "23:59",
              IF k % 3 = 0 THEN "completed" ELSE IF k % 3 = 1 THEN "scheduled" ELSE "live")]

\* the matches prop: not given (as in App), or the caller's list
PropChoices ==
    {[given |-> FALSE, list |-> <<>>],
     [given |-> TRUE, list |-> CatalogueMatches]}

----------------------------------------------------------------------------
(* Upcoming as a state machine *)

\* the state of a freshly mounted view, whose list call is pending
Mounted(clock) ==
    /\ upMountNow' = clock
    /\ days' = BuildDays(clock)
    /\ selectedDayIndex' = 0
    /\ apiMatches' = <<>>
    /\ apiStatus' = "pending"
    /\ upView' = RenderUpcoming(upProp, <<>>, BuildDays(clock), 0, clock)

UpcomingInit ==
    /\ upClock \in MountClocks
    /\ upProp \in PropChoices
    /\ upSteps = 0
    /\ upMountNow = upClock
    /\ days = BuildDays(upClock)
    /\ selectedDayIndex = 0
    /\ apiMatches = <<>>
    /\ apiStatus = "pending"
    /\ upView = RenderUpcoming(upProp, <<>>, days, 0, upClock)

\* time passes; nothing renders
UpClockStep ==
    /\ upSteps < MaxClockSteps
    /\ upClock' = DateAddMs(upClock, ClockStepMs)
    /\ upSteps' = upSteps + 1
    /\ UNCHANGED <<upMountNow, upProp, days, selectedDayIndex,
                   apiMatches, apiStatus, upView>>
    /\ UNCHANGED nonUpVars

\* MatchesAPI.list() resolves: setApiMatches(data), and the view renders
UpListResolved ==
    /\ apiStatus = "pending"
    /\ \E data \in ApiLists : apiMatches' = data
    /\ apiStatus' = "resolved"
    /\ days' = DaysMemo(days, upClock)
    /\ upView' = RenderUpcoming(upProp, apiMatches', days', selectedDayIndex, upClock)
    /\ UNCHANGED <<upClock, upMountNow, upSteps, upProp, selectedDayIndex>>
    /\ UNCHANGED nonUpVars

\* MatchesAPI.list() rejects: the error is logged, no state is set
UpListRejected ==
    /\ apiStatus = "pending"
    /\ apiStatus' = "rejected"
    /\ UNCHANGED <<upClock, upMountNow, upSteps, upProp, days,
                   selectedDayIndex, apiMatches, upView>>
    /\ UNCHANGED nonUpVars

\* a day tab is clicked: setSelectedDayIndex(i), and the view renders
UpSelectDay ==
    /\ \E i \in 0..6 :
          /\ i # selectedDayIndex
          /\ selectedDayIndex' = i
    /\ days' = DaysMemo(days, upClock)
    /\ upView' = RenderUpcoming(upProp, apiMatches, days', selectedDayIndex', upClock)
    /\ UNCHANGED <<upClock, upMountNow, upSteps, upProp, apiMatches, apiStatus>>
    /\ UNCHANGED nonUpVars

\* the route changes away and back: the view unmounts and a new one mounts
UpRemount ==
    /\ Mounted(upClock)
    /\ UNCHANGED <<upClock, upSteps, upProp>>
    /\ UNCHANGED nonUpVars

InitUpcoming == UpcomingInit /\ CardIdle /\ AuthIdle /\ RequestIdle /\ PagesIdle
    /\ DeckIdle

NextUpcoming ==
    UpClockStep \/ UpListResolved \/ UpListRejected \/ UpSelectDay \/ UpRemount

SpecUpcoming == InitUpcoming /\ [][NextUpcoming]_vars

----------------------------------------------------------------------------
(* AuthProvider.jsx: the session store and its persistence effects *)

\* A user value in memory: null, undefined, or an object with its role.
NullUser == [kind |-> "null", role |-> ""]
UndefinedUser == [kind |-> "undefined", role |-> ""]
UserObject(role) == [kind |-> "object", role |-> role]

\* JavaScript truthiness of a token (a string, null or undefined) and of a
\* user value
TruthyToken(t) == t \notin {NULL, UNDEFINED, ""}
TruthyUser(u) == u.kind = "object"

\* JSON.stringify of a user object
JSONstringify(u) == "{\"role\":\"" \o u.role \o "\"}"

\* JSON.parse of a stored text: the texts JSON.stringify writes, the same
\* object written with blanks, the JSON values null and false, and text
\* that is no JSON, on which JSON.parse throws
JSONparse(text) ==
    IF text \in {"{\"role\":\"admin\"}", "{ \"role\": \"admin\" }"}
    THEN [threw |-> FALSE, value |-> UserObject("admin")]
    ELSE IF text = "{\"role\":\"viewer\"}"
    THEN [threw |-> FALSE, value |-> UserObject("viewer")]
    ELSE IF text \in {"null", "false"}
    THEN [threw |-> FALSE, value |-> NullUser]
    ELSE [threw |-> TRUE, value |-> NullUser]

\* localStorage.getItem: the stored string, or null for an absent key
GetItem(stored) == IF stored = ABSENT THEN NULL ELSE stored

\* the initial token state: localStorage.getItem(TOKEN_KEY) || null
InitialToken(stored) ==
    IF TruthyToken(GetItem(stored)) THEN GetItem(stored) ELSE NULL

\* the initial user state: JSON.parse(localStorage.getItem(USER_KEY)) ||
\* null, and null when JSON.parse throws; JSON.parse(null) is null
InitialUser(stored) ==
    IF GetItem(stored) = NULL THEN NullUser
    ELSE LET parsed == JSONparse(stored)
         IN  IF parsed.threw THEN NullUser
             ELSE IF TruthyUser(parsed.value) THEN parsed.value
             ELSE NullUser

\* the effect on [token]: set the key when the token is truthy, remove it
\* otherwise; the result is the stored value of the key
TokenEffect(t) == IF TruthyToken(t) THEN t ELSE ABSENT

\* an effect on [user] that writes the text null for a user that is falsy
UserEffect_WritesNull(u) == IF TruthyUser(u) THEN JSONstringify(u) ELSE "null"

\* the effect on [user]
UserEffect(u) == IF TruthyUser(u) THEN JSONstringify(u) ELSE ABSENT

\* an effect waiting to run with the value its render captured, or none
NoEffect(v) == [pending |-> FALSE, value |-> v]
Effect(v) == [pending |-> TRUE, value |-> v]

\* the stored values once the waiting effects have run
TokenStoreAfter(stored, eff) ==
    IF eff.pending THEN TokenEffect(eff.value) ELSE stored
UserStoreAfter(stored, eff) ==
    IF eff.pending THEN UserEffect(eff.value) ELSE stored

\* A state setter re-renders, and so schedules the effect, unless the new
\* value is the same value (Object.is); an object of a response is never
\* the same as the one held.
TokenChanges(old, new) == old # new
UserChanges(old, new) == new.kind = "object" \/ old # new

NoTokenEffect == [pending |-> FALSE, value |-> NULL]
NoUserEffect == [pending |-> FALSE, value |-> NullUser]

----------------------------------------------------------------------------
(* The inputs of the session model *)

\* what the token key may hold when the application starts
StoredTokens == {ABSENT, "", "tokA"}

\* what the user key may hold when the application starts
StoredUsers ==
    {ABSENT, "{\"role\":\"admin\"}", "{ \"role\": \"admin\" }",
     "{\"role\":\"viewer\"}", "null", "{bad"}

\* the token and the user of a login response
ResponseTokens == {"tokA", "tokB", ""}
ResponseUsers == {UserObject("admin"), UserObject("viewer"), UndefinedUser}

----------------------------------------------------------------------------
(* App.jsx, RequireAdmin.jsx, Login.jsx, api.js: the routes, the admin     *)
(* guard, the login form and the headers of a request                      *)

\* a router location: its pathname and the `from` of its state
Location(pathname, from) == [pathname |-> pathname, from |-> from]

\* the pathnames the route "/admin" matches
AdminPaths == {"/admin", "/admin/"}

\* the pathnames a visitor opens
Paths == {"/", "/login", "/upcoming", "/live"} \cup AdminPaths

\* the page the routes of App render at a pathname
PageOf(pathname) ==
    IF pathname \in AdminPaths THEN "Admin"
    ELSE IF pathname = "/login" THEN "Login"
    ELSE IF pathname = "/upcoming" THEN "Upcoming"
    ELSE IF pathname = "/live" THEN "Live"
    ELSE "Home"

\* the pages whose mount effect calls MatchesAPI.list()
ListingPages == {"Admin", "Upcoming", "Live"}

\* user?.role === 'admin'
IsAdmin(usr) == usr.kind = "object" /\ usr.role = "admin"

\* a guard that looks at the token alone
RequireAdmin_TokenOnly(tk, usr, pathname) ==
    IF ~TruthyToken(tk)
    THEN [redirect |-> TRUE, to |-> Location("/login", pathname)]
    ELSE [redirect |-> FALSE, to |-> Location(pathname, UNDEFINED)]

\* RequireAdmin at a pathname: the <Navigate> it renders, or its children
RequireAdmin(tk, usr, pathname) ==
    IF ~TruthyToken(tk) \/ ~IsAdmin(usr)
    THEN [redirect |-> TRUE, to |-> Location("/login", pathname)]
    ELSE [redirect |-> FALSE, to |-> Location(pathname, UNDEFINED)]

\* the location the router settles on: the one asked for, or the one the
\* guard of the admin route navigates to
Routes(tk, usr, loc) ==
    IF loc.pathname \in AdminPaths /\ RequireAdmin(tk, usr, loc.pathname).redirect
    THEN RequireAdmin(tk, usr, loc.pathname).to
    ELSE loc

\* a page that lists matches is mounted by the move from one location to
\* another
MountsListing(old, new) ==
    /\ PageOf(new.pathname) \in ListingPages
    /\ PageOf(old.pathname) # PageOf(new.pathname)

\* api.js getToken: localStorage.getItem('npl_token_v1') || null
getToken(stored) ==
    IF TruthyToken(GetItem(stored)) THEN GetItem(stored) ELSE NULL

\* the Authorization header request() sets, ABSENT when it sets none
AuthorizationOf(stored) ==
    IF TruthyToken(getToken(stored)) THEN "Bearer " \o getToken(stored)
    ELSE ABSENT

\* a request as request() issues it; `held` records the token the
\* AuthProvider holds at that moment
Request(path, stored, held) ==
    [path |-> path, authorization |-> AuthorizationOf(stored), held |-> held]

\* Login: const from = location.state?.from || '/'
FromOf(loc) == IF loc.from = UNDEFINED THEN "/" ELSE loc.from

\* from.startsWith('/admin')
StartsWithAdmin(from) == Len(from) >= 6 /\ SubSeq(from, 1, 6) = "/admin"

\* Login.submit navigating every admin to '/admin'
LoginDestination_IgnoresFrom(usr, from) ==
    IF IsAdmin(usr) THEN "/admin" ELSE "/live"

\* Login.submit: where it navigates once the session is set
LoginDestination(usr, from) ==
    IF IsAdmin(usr)
    THEN IF StartsWithAdmin(from) THEN from ELSE "/admin"
    ELSE "/live"

\* the login request of the form, when one is in flight, with the `from`
\* its submit closed over, the error the mounted form shows, and whether
\* the form that issued the request is still the mounted one
NoLogin == [pending |-> FALSE, from |-> "/", error |-> "", attached |-> TRUE]
LoginInFlight(from) ==
    [pending |-> TRUE, from |-> from, error |-> "", attached |-> TRUE]

\* the form after the routes moved from one location to another: a move
\* away from the login page unmounts the form, whose state is lost, and
\* the request it issued stays in flight
FormAfterMove(form, old, new) ==
    IF PageOf(old.pathname) = "Login" /\ PageOf(new.pathname) # "Login"
    THEN [form EXCEPT !.error = "", !.attached = ~form.pending]
    ELSE form

----------------------------------------------------------------------------
(* AuthProvider, the router and the login form as a state machine *)

\* the first render: both states are read from storage, and both effects
\* wait to run after it; the mount effects of the pages (the list call of
\* Upcoming among them) run before the effects of the provider
AuthInit ==
    /\ lsToken \in StoredTokens
    /\ lsUser \in StoredUsers
    /\ token = InitialToken(lsToken)
    /\ user = InitialUser(lsUser)
    /\ tokenEffect = Effect(token)
    /\ userEffect = Effect(user)
    /\ authLast = "mount"
    /\ requested \in Paths
    /\ location = Routes(token, user, Location(requested, UNDEFINED))
    /\ loginPending = NoLogin
    /\ lastRequest = Request("/matches", lsToken, token)

\* setToken(t); setUser(u) in one handler: the effects still waiting from
\* the last render run first, then the provider renders with the new
\* values, and an effect waits for each value that changed
SetSession(t, u) ==
    /\ lsToken' = TokenStoreAfter(lsToken, tokenEffect)
    /\ lsUser' = UserStoreAfter(lsUser, userEffect)
    /\ token' = t
    /\ user' = u
    /\ tokenEffect' = IF TokenChanges(token, t) THEN Effect(t) ELSE NoTokenEffect
    /\ userEffect' = IF UserChanges(user, u) THEN Effect(u) ELSE NoUserEffect

\* the same, followed by the effects of that render before anything else
\* is rendered
SetSessionThenEffects(t, u) ==
    /\ lsToken' = IF TokenChanges(token, t) THEN TokenEffect(t)
                  ELSE TokenStoreAfter(lsToken, tokenEffect)
    /\ lsUser' = IF UserChanges(user, u) THEN UserEffect(u)
                 ELSE UserStoreAfter(lsUser, userEffect)
    /\ token' = t
    /\ user' = u
    /\ tokenEffect' = NoTokenEffect
    /\ userEffect' = NoUserEffect

\* the waiting effects run: the token effect, then the user effect
RunEffects ==
    /\ tokenEffect.pending \/ userEffect.pending
    /\ lsToken' = TokenStoreAfter(lsToken, tokenEffect)
    /\ lsUser' = UserStoreAfter(lsUser, userEffect)
    /\ tokenEffect' = NoTokenEffect
    /\ userEffect' = NoUserEffect
    /\ UNCHANGED <<token, user, authLast, location, requested, loginPending,
                   lastRequest>>
    /\ UNCHANGED nonAuthVars

\* a link or the address bar moves to a pathname: the waiting effects run,
\* the routes render, and a page that lists matches issues its list call
\* when it mounts
GoTo(pathname) ==
    /\ lsToken' = TokenStoreAfter(lsToken, tokenEffect)
    /\ lsUser' = UserStoreAfter(lsUser, userEffect)
    /\ tokenEffect' = NoTokenEffect
    /\ userEffect' = NoUserEffect
    /\ requested' = pathname
    /\ location' = Routes(token, user, Location(pathname, UNDEFINED))
    /\ lastRequest' = IF MountsListing(location, location')
                      THEN Request("/matches", lsToken', token)
                      ELSE lastRequest
    /\ loginPending' = FormAfterMove(loginPending, location, location')
    /\ UNCHANGED <<token, user, authLast>>
    /\ UNCHANGED nonAuthVars

Visit == \E pathname \in Paths : pathname # location.pathname /\ GoTo(pathname)

\* Login.submit up to its await: the button is enabled, the request is
\* issued with the header request() builds
LoginSubmit ==
    /\ PageOf(location.pathname) = "Login"
    /\ ~loginPending.pending
    /\ lsToken' = TokenStoreAfter(lsToken, tokenEffect)
    /\ lsUser' = UserStoreAfter(lsUser, userEffect)
    /\ tokenEffect' = NoTokenEffect
    /\ userEffect' = NoUserEffect
    /\ loginPending' = LoginInFlight(FromOf(location))
    /\ lastRequest' = Request("/auth/login", lsToken', token)
    /\ UNCHANGED <<token, user, authLast, location, requested>>
    /\ UNCHANGED nonAuthVars

\* Login.submit after AuthAPI.login resolved: setToken(token);
\* setUser(user); nav(dest).  The router renders the new location either
\* in the render of the two setters (a plain state update) or in a later
\* one (a transition), after the effects of the provider; in the first
\* case the mount effect of the new page runs before those effects.
LoginSucceeded ==
    /\ loginPending.pending
    /\ \E t \in ResponseTokens : \E u \in ResponseUsers : \E sameRender \in BOOLEAN :
        LET dest == LoginDestination(u, loginPending.from)
        IN  /\ IF sameRender THEN SetSession(t, u)
                             ELSE SetSessionThenEffects(t, u)
            /\ requested' = dest
            /\ location' = Routes(t, u, Location(dest, UNDEFINED))
            /\ lastRequest' = IF MountsListing(location, location')
                              THEN Request("/matches", lsToken', t)
                              ELSE lastRequest
    /\ loginPending' = NoLogin
    /\ authLast' = "login"
    /\ UNCHANGED nonAuthVars

\* Login.submit whose catch sets the error and which has no finally
LoginRejected_StaysLoading ==
    /\ loginPending.pending
    /\ loginPending' = [loginPending EXCEPT !.error = "Invalid credentials"]
    /\ UNCHANGED <<token, user, lsToken, lsUser, tokenEffect, userEffect,
                   authLast, location, requested, lastRequest>>
    /\ UNCHANGED nonAuthVars

\* Login.submit after AuthAPI.login rejected: setError and setLoading act
\* on the form that issued the request, and are lost when it is unmounted
LoginRejected ==
    /\ loginPending.pending
    /\ loginPending' =
           [NoLogin EXCEPT !.error =
               IF loginPending.attached THEN "Invalid credentials" ELSE ""]
    /\ UNCHANGED <<token, user, lsToken, lsUser, tokenEffect, userEffect,
                   authLast, location, requested, lastRequest>>
    /\ UNCHANGED nonAuthVars

\* logout that forgets the user: setToken(null) alone
Logout_TokenOnly ==
    /\ SetSession(NULL, user)
    /\ location' = Routes(NULL, user, location)
    /\ authLast' = "logout"
    /\ UNCHANGED <<requested, loginPending, lastRequest>>
    /\ UNCHANGED nonAuthVars

\* logout: () => { setToken(null); setUser(null); }, and the routes render
\* with the cleared session
Logout ==
    /\ SetSession(NULL, NullUser)
    /\ location' = Routes(NULL, NullUser, location)
    /\ authLast' = "logout"
    /\ UNCHANGED <<requested, loginPending, lastRequest>>
    /\ UNCHANGED nonAuthVars

InitAuth == AuthInit /\ CardIdle /\ UpcomingIdle /\ RequestIdle /\ PagesIdle
    /\ DeckIdle

NextAuth ==
    RunEffects \/ Visit \/ LoginSubmit \/ LoginSucceeded \/ LoginRejected
        \/ Logout

SpecAuth == InitAuth /\ [][NextAuth]_vars

----------------------------------------------------------------------------
(* api.js: request, from the response of fetch to the settled promise *)

\* a JSON value: its kind and its text without insignificant blanks
JsonValue(kind, text) == [kind |-> kind, text |-> text]
JsonNull == JsonValue("null", "null")

\* res.json(): JSON.parse of the body text, which throws on text that is
\* no JSON, the empty text included
ResJson(body) ==
    IF body \in {"{\"_id\":\"m1\"}", " {\"_id\": \"m1\"}\n"}
    THEN [threw |-> FALSE, value |-> JsonValue("object", "{\"_id\":\"m1\"}")]
    ELSE IF body = "{\"message\":\"Email taken\"}"
    THEN [threw |-> FALSE,
          value |-> JsonValue("object", "{\"message\":\"Email taken\"}")]
    ELSE IF body = "[]"
    THEN [threw |-> FALSE, value |-> JsonValue("array", "[]")]
    ELSE IF body = "null"
    THEN [threw |-> FALSE, value |-> JsonNull]
    ELSE [threw |-> TRUE, value |-> JsonNull]

\* res.ok: the status is in the range 200-299
ResOk(status) == 200 <= status /\ status <= 299

\* how the promise of request() settles
Pending == [state |-> "pending", value |-> JsonNull, message |-> ""]
Resolved(value) == [state |-> "resolved", value |-> value, message |-> ""]
Rejected(message) == [state |-> "rejected", value |-> JsonNull, message |-> message]

\* the message of the SyntaxError res.json() rejects with
SyntaxErrorMessage == "SyntaxError: Unexpected token"

\* request that prefers the status text to the body
request_StatusTextFirst(res) ==
    IF ~ResOk(res.status)
    THEN Rejected(IF res.statusText # "" THEN res.statusText ELSE res.body)
    ELSE IF res.status = 204 THEN Resolved(JsonNull)
    ELSE IF ResJson(res.body).threw THEN Rejected(SyntaxErrorMessage)
    ELSE Resolved(ResJson(res.body).value)

\* request, after fetch resolved to res
request(res) ==
    IF ~ResOk(res.status)
    THEN Rejected(IF res.body # "" THEN res.body ELSE res.statusText)
    ELSE IF res.status = 204 THEN Resolved(JsonNull)
    ELSE IF ResJson(res.body).threw THEN Rejected(SyntaxErrorMessage)
    ELSE Resolved(ResJson(res.body).value)

\* the responses of the model: a 204 response has no body
ResponseStatuses == {200, 201, 204, 299, 300, 400, 401, 404, 500}
ResponseStatusTexts == {"", "Not Found"}
ResponseBodies ==
    {"", "{\"_id\":\"m1\"}", " {\"_id\": \"m1\"}\n", "[]", "null",
     "{\"message\":\"Email taken\"}", "Not Found", "<html>"}
HttpResponse(status, statusText, body) ==
    [status |-> status, statusText |-> statusText, body |-> body]
Responses ==
    {HttpResponse(st, tx, bd) :
        st \in ResponseStatuses, tx \in ResponseStatusTexts, bd \in ResponseBodies}

\* fetch resolved to a response
RequestInit ==
    /\ response \in {res \in Responses : res.status = 204 => res.body = ""}
    /\ outcome = Pending

\* the rest of request runs and its promise settles
RequestSettles ==
    /\ outcome.state = "pending"
    /\ outcome' = request(response)
    /\ UNCHANGED response
    /\ UNCHANGED nonRequestVars

\* the next call: fetch resolves to another response
RequestAgain ==
    /\ outcome.state # "pending"
    /\ response' \in {res \in Responses : res.status = 204 => res.body = ""}
    /\ outcome' = Pending
    /\ UNCHANGED nonRequestVars

InitRequest == RequestInit /\ CardIdle /\ UpcomingIdle /\ AuthIdle /\ PagesIdle
    /\ DeckIdle

NextRequest == RequestSettles \/ RequestAgain

SpecRequest == InitRequest /\ [][NextRequest]_vars

----------------------------------------------------------------------------
(* Register.jsx: the registration form *)

\* what the password fields are filled with
Passwords == {"", "pw1", "pw2"}

\* the message of a rejected register call, as request() builds it
RegisterFailures == {"{\"message\":\"Email taken\"}", "Not Found", ""}

\* Register.submit, catch: JSON.parse(e.message).message when e.message is
\* truthy, 'Registration failed' when it is not or when JSON.parse throws
RegisterError(message) ==
    IF message = "" THEN "Registration failed"
    ELSE IF message = "{\"message\":\"Email taken\"}" THEN "Email taken"
    ELSE "Registration failed"

RegisterInit ==
    reg = [RegisterUnmounted EXCEPT !.mounted = TRUE]

\* onChange of the password or of the confirm field
RegisterType ==
    /\ reg.mounted
    /\ \E field \in {"password", "confirm"} : \E value \in Passwords :
        /\ reg[field] # value
        /\ reg' = [reg EXCEPT ![field] = value]
    /\ UNCHANGED <<footerVars, storeVars, adminVars>>
    /\ UNCHANGED nonPagesVars

\* submit that does not compare the passwords
RegisterSubmit_NoCompare ==
    /\ reg.mounted
    /\ ~reg.loading
    /\ reg.password # "" /\ reg.confirm # ""
    /\ reg.calls < MaxRequests
    /\ reg' = [reg EXCEPT !.error = "", !.success = "", !.loading = TRUE,
                          !.inFlight = @ + 1, !.calls = @ + 1]
    /\ UNCHANGED <<footerVars, storeVars, adminVars>>
    /\ UNCHANGED nonPagesVars

\* Register.submit up to its await; the form is submitted with the button
\* enabled and the required fields filled in
RegisterSubmit ==
    /\ reg.mounted
    /\ ~reg.loading
    /\ reg.password # "" /\ reg.confirm # ""
    /\ IF reg.password # reg.confirm
       THEN reg' = [reg EXCEPT !.error = "Passwords do not match",
                               !.success = ""]
       ELSE /\ reg.calls < MaxRequests
            /\ reg' = [reg EXCEPT !.error = "", !.success = "",
                                  !.loading = TRUE,
                                  !.inFlight = @ + 1, !.calls = @ + 1]
    /\ UNCHANGED <<footerVars, storeVars, adminVars>>
    /\ UNCHANGED nonPagesVars

\* AuthAPI.register resolved: the success message, and the timer that
\* navigates to /login
RegisterResolved ==
    /\ reg.inFlight > 0
    /\ reg' = [reg EXCEPT !.success = "Account created. You can now log in.",
                          !.loading = FALSE, !.inFlight = @ - 1,
                          !.timers = @ + 1]
    /\ UNCHANGED <<footerVars, storeVars, adminVars>>
    /\ UNCHANGED nonPagesVars

\* AuthAPI.register rejected
RegisterRejected ==
    /\ reg.inFlight > 0
    /\ \E message \in RegisterFailures :
        reg' = [reg EXCEPT !.error = RegisterError(message),
                           !.loading = FALSE, !.inFlight = @ - 1]
    /\ UNCHANGED <<footerVars, storeVars, adminVars>>
    /\ UNCHANGED nonPagesVars

\* the timer fires: nav('/login', { replace: true }) unmounts the page
RegisterRedirect ==
    /\ reg.timers > 0
    /\ reg' = [reg EXCEPT !.mounted = FALSE, !.timers = @ - 1]
    /\ UNCHANGED <<footerVars, storeVars, adminVars>>
    /\ UNCHANGED nonPagesVars

----------------------------------------------------------------------------
(* Footer.jsx: the subscribe form *)

\* \s of the regular expression, and the blanks String.prototype.trim cuts
IsSpace(c) == c \in {" ", "\t", "\n"}

RECURSIVE TrimStart(_)
TrimStart(s) ==
    IF Len(s) > 0 /\ IsSpace(CharAt(s, 1))
    THEN TrimStart(SubSeq(s, 2, Len(s))) ELSE s

RECURSIVE TrimEnd(_)
TrimEnd(s) ==
    IF Len(s) > 0 /\ IsSpace(CharAt(s, Len(s)))
    THEN TrimEnd(SubSeq(s, 1, Len(s) - 1)) ELSE s

\* String.prototype.trim
Trim(s) == TrimEnd(TrimStart(s))

\* s matches [^\s@]+
IsPlainRun(s) ==
    /\ Len(s) > 0
    /\ \A i \in 1..Len(s) : ~IsSpace(CharAt(s, i)) /\ CharAt(s, i) # "@"

\* /^[^\s@]+@[^\s@]+\.[^\s@]+$/.test(s)
EmailRegexTest(s) ==
    \E at \in 1..Len(s) : \E dot \in 1..Len(s) :
        /\ at < dot
        /\ CharAt(s, at) = "@"
        /\ CharAt(s, dot) = "."
        /\ IsPlainRun(SubSeq(s, 1, at - 1))
        /\ IsPlainRun(SubSeq(s, at + 1, dot - 1))
        /\ IsPlainRun(SubSeq(s, dot + 1, Len(s)))

\* isValidEmail: the regular expression on the trimmed value
isValidEmail(value) == EmailRegexTest(Trim(value))

\* what the email field is filled with
FooterEmails ==
    {"", "fan@npl.np", " fan@npl.np ", "fan", "fan@npl", "fan@@npl.np",
     "f an@npl.np", "@npl.np", "fan@npl."}

\* the footer with or without an onSubscribe prop
FooterInit ==
    \E handler \in BOOLEAN :
        foot = [FooterUnmounted EXCEPT !.mounted = TRUE, !.handler = handler]

\* onChange of the email field
FooterType ==
    /\ foot.mounted
    /\ \E value \in FooterEmails :
        /\ foot.email # value
        /\ foot' = [foot EXCEPT !.email = value]
    /\ UNCHANGED <<registerVars, storeVars, adminVars>>
    /\ UNCHANGED nonPagesVars

\* handleSubmit up to its await; the form is submitted with the button
\* enabled.  `subscribed` lists the arguments of the onSubscribe calls.
FooterSubmit ==
    /\ foot.mounted
    /\ foot.status \notin {"loading", "success"}
    /\ IF ~isValidEmail(foot.email)
       THEN foot' = [foot EXCEPT !.errorMsg = "Please enter a valid email."]
       ELSE /\ foot.calls < MaxRequests
            /\ foot' = [foot EXCEPT
                    !.errorMsg = "", !.status = "loading",
                    !.inFlight = @ + 1, !.calls = @ + 1,
                    !.subscribed = IF foot.handler
                                   THEN Append(@, Trim(foot.email)) ELSE @]
    /\ UNCHANGED <<registerVars, storeVars, adminVars>>
    /\ UNCHANGED nonPagesVars

\* onSubscribe, or the simulated wait, resolved
FooterResolved ==
    /\ foot.inFlight > 0
    /\ foot' = [foot EXCEPT !.status = "success", !.email = "",
                            !.inFlight = @ - 1, !.timers = @ + 1]
    /\ UNCHANGED <<registerVars, storeVars, adminVars>>
    /\ UNCHANGED nonPagesVars

\* onSubscribe rejected
FooterRejected ==
    /\ foot.inFlight > 0
    /\ foot.handler
    /\ foot' = [foot EXCEPT !.status = "error",
                            !.inFlight = @ - 1, !.timers = @ + 1]
    /\ UNCHANGED <<registerVars, storeVars, adminVars>>
    /\ UNCHANGED nonPagesVars

\* a timer set after the call settled fires: setStatus("idle")
FooterTimer ==
    /\ foot.timers > 0
    /\ foot' = [foot EXCEPT !.status = "idle", !.timers = @ - 1]
    /\ UNCHANGED <<registerVars, storeVars, adminVars>>
    /\ UNCHANGED nonPagesVars

----------------------------------------------------------------------------
(* The matches store: getMatches, saveMatches, upsertMatch, deleteMatch *)

\* a match as the store keeps it; a match without id has id undefined
StoredMatch(id, status) == [id |-> id, status |-> status]
StoreIds == {"a", "b", UNDEFINED}
StoreMatches ==
    {StoredMatch(id, status) : id \in StoreIds, status \in {"scheduled", "live"}}

\* JSON.stringify of a match: a key whose value is undefined is left out
JSONstringifyMatch(m) ==
    "{" \o (IF m.id = UNDEFINED THEN "" ELSE "\"id\":\"" \o m.id \o "\",")
        \o "\"status\":\"" \o m.status \o "\"}"

\* JSON.stringify of a list of matches
RECURSIVE JoinMatches(_)
JoinMatches(list) ==
    IF Len(list) = 0 THEN ""
    ELSE IF Len(list) = 1 THEN JSONstringifyMatch(list[1])
    ELSE JSONstringifyMatch(list[1]) \o "," \o JoinMatches(Tail(list))

JSONstringifyList(list) == "[" \o JoinMatches(list) \o "]"

\* texts that are JSON but no array, with the value as a match, and texts
\* that are no JSON
NotArrayTexts == {"null", "{\"id\":\"a\",\"status\":\"live\"}"}
NotJsonTexts == {"{bad", "[{\"id\":"}

\* the text from position i on starts with the text word
StartsWithAt(text, i, word) ==
    /\ i + Len(word) - 1 <= Len(text)
    /\ SubSeq(text, i, i + Len(word) - 1) = word

\* the JSON text of each match
MatchTexts == [m \in StoreMatches |-> JSONstringifyMatch(m)]

\* JSON.parse of one match object at position i of the text: the match and
\* the position after it, or a throw
ParseMatchAt(text, i) ==
    LET found == {m \in StoreMatches : StartsWithAt(text, i, MatchTexts[m])}
    IN  IF found = {} THEN [threw |-> TRUE, value |-> <<>>, next |-> i]
        ELSE LET m == CHOOSE x \in found : TRUE
             IN  [threw |-> FALSE, value |-> <<m>>,
                  next |-> i + Len(MatchTexts[m])]

\* JSON.parse of the elements of an array from position i on, up to the
\* closing bracket that ends the text
RECURSIVE ParseElementsAt(_, _)
ParseElementsAt(text, i) ==
    LET first == ParseMatchAt(text, i)
    IN  IF first.threw THEN [threw |-> TRUE, value |-> <<>>]
        ELSE IF StartsWithAt(text, first.next, "]") /\ first.next = Len(text)
        THEN [threw |-> FALSE, value |-> first.value]
        ELSE IF StartsWithAt(text, first.next, ",")
        THEN LET rest == ParseElementsAt(text, first.next + 1)
             IN  [threw |-> rest.threw,
                  value |-> IF rest.threw THEN <<>>
                            ELSE first.value \o rest.value]
        ELSE [threw |-> TRUE, value |-> <<>>]

\* JSON.parse of the text of the matches key: an array of matches, a value
\* that is no array (held as the list of that one value, and empty for
\* null), or a throw
JSONparseList(text) ==
    IF text = "[]"
    THEN [threw |-> FALSE, isArray |-> TRUE, value |-> <<>>]
    ELSE IF StartsWithAt(text, 1, "[")
    THEN LET elements == ParseElementsAt(text, 2)
         IN  [threw |-> elements.threw, isArray |-> ~elements.threw,
              value |-> elements.value]
    ELSE IF text = "null"
    THEN [threw |-> FALSE, isArray |-> FALSE, value |-> <<>>]
    ELSE LET object == ParseMatchAt(text, 1)
         IN  IF ~object.threw /\ object.next = Len(text) + 1
             THEN [threw |-> FALSE, isArray |-> FALSE, value |-> object.value]
             ELSE [threw |-> TRUE, isArray |-> FALSE, value |-> <<>>]

\* getMatches that takes whatever JSON.parse returns: data || []
getMatches_NoArrayCheck(stored) ==
    IF GetItem(stored) \in {NULL, ""} THEN <<>>
    ELSE LET data == JSONparseList(stored)
         IN  IF data.threw THEN <<>> ELSE data.value

\* getMatches
getMatches(stored) ==
    IF GetItem(stored) \in {NULL, ""} THEN <<>>
    ELSE LET data == JSONparseList(stored)
         IN  IF data.threw THEN <<>>
             ELSE IF data.isArray THEN data.value
             ELSE <<>>

\* saveMatches: the text the key holds afterwards
saveMatches(matches) == JSONstringifyList(matches)

\* list.findIndex((m) => m.id === match.id), 0 when there is none
FindIndexById(list, id) ==
    IF \E i \in 1..Len(list) : list[i].id = id
    THEN CHOOSE i \in 1..Len(list) :
            list[i].id = id /\ \A j \in 1..(i - 1) : list[j].id # id
    ELSE 0

\* list.filter((m) => m.id !== id)
RECURSIVE FilterOutId(_, _)
FilterOutId(list, id) ==
    IF Len(list) = 0 THEN <<>>
    ELSE IF list[1].id = id THEN FilterOutId(Tail(list), id)
    ELSE <<list[1]>> \o FilterOutId(Tail(list), id)

\* upsertMatch that pushes the match whether or not its id is in the list
upsertMatch_AlwaysPushes(stored, match) ==
    saveMatches(Append(getMatches(stored), match))

\* upsertMatch: the text the key holds afterwards
upsertMatch(stored, match) ==
    LET list == getMatches(stored)
        idx == FindIndexById(list, match.id)
    IN  IF idx >= 1 THEN saveMatches([list EXCEPT ![idx] = match])
        ELSE saveMatches(Append(list, match))

\* deleteMatch: the text the key holds afterwards
deleteMatch(stored, id) == saveMatches(FilterOutId(getMatches(stored), id))

\* what the key may hold when the store is first used
StoredMatchTexts ==
    {ABSENT, "", "[]",
     JSONstringifyList(<<StoredMatch("a", "scheduled")>>),
     JSONstringifyList(<<StoredMatch("a", "live"), StoredMatch("b", "scheduled")>>),
     JSONstringifyList(<<StoredMatch(UNDEFINED, "scheduled")>>)}
        \cup NotArrayTexts \cup NotJsonTexts

\* the store is used: the key holds one of the texts, nothing is listed yet
StoreInit ==
    /\ lsMatches \in StoredMatchTexts
    /\ listing = NotListed
    /\ storeUsed = TRUE

\* a call of getMatches
GetMatchesCall ==
    /\ storeUsed
    /\ listing' = Listing(getMatches(lsMatches))
    /\ UNCHANGED <<lsMatches, storeUsed>>
    /\ UNCHANGED <<registerVars, footerVars, adminVars>>
    /\ UNCHANGED nonPagesVars

\* a call of upsertMatch
UpsertMatchCall ==
    /\ storeUsed
    /\ \E match \in StoreMatches :
        /\ \/ Len(getMatches(lsMatches)) < MaxStored
           \/ FindIndexById(getMatches(lsMatches), match.id) >= 1
        /\ lsMatches' = upsertMatch(lsMatches, match)
    /\ UNCHANGED <<listing, storeUsed>>
    /\ UNCHANGED <<registerVars, footerVars, adminVars>>
    /\ UNCHANGED nonPagesVars

\* a call of deleteMatch
DeleteMatchCall ==
    /\ storeUsed
    /\ \E id \in StoreIds :
        /\ lsMatches' = deleteMatch(lsMatches, id)
    /\ UNCHANGED <<listing, storeUsed>>
    /\ UNCHANGED <<registerVars, footerVars, adminVars>>
    /\ UNCHANGED nonPagesVars

----------------------------------------------------------------------------
(* Admin.jsx: the list, the Editor, save, remove and SetLiveButton *)

\* a match of the list, with the fields save looks at and its status
AdminMatch(id, status) ==
    [_id |-> id, date |-> "2025-12-28", startTime |-> "19:30",
     nameA |-> "KTM", nameB |-> "PKR", status |-> status]

\* the lists MatchesAPI.list() resolves to: at most one match is live
AdminLists ==
    {<<AdminMatch("m1", "scheduled"), AdminMatch("m2", "live")>>}

\* a list with two matches that can be set live while a third is live
LongAdminLists ==
    {<<AdminMatch("m1", "scheduled"), AdminMatch("m2", "live"),
       AdminMatch("m3", "completed")>>}

\* the options of the status select, and what the other fields of the
\* Editor are set to
StatusOptions == {"scheduled", "soon", "live", "completed"}
EditorValues ==
    [date |-> {"", "2025-12-28"}, startTime |-> {"19:30"},
     nameA |-> {"KTM"}, nameB |-> {"", "PKR"}, status |-> StatusOptions]

\* startCreate: the match a new Editor opens with, an object literal
startCreate == [open |-> TRUE, match |-> BlankMatch, teams |-> ABSENT]

\* startEdit without the copy: setEditing(m), the row itself
startEdit_NoCopy(m) == [open |-> TRUE, match |-> m, teams |-> m._id]

\* startEdit: JSON.parse(JSON.stringify(m)), a deep copy of the match,
\* which shares no object with the row
startEdit(m) == [open |-> TRUE, match |-> m, teams |-> ABSENT]

\* the fields of the Editor that TeamEditor sets, inside the teams array
TeamFields == {"nameA", "nameB"}

\* Editor.set: next = { ...match } copies the top level only, and the loop
\* over the path assigns into the teams array that next shares with
\* match; a row that holds the same array shows the assignment
SetInPlace(list, ed, field, value) ==
    [i \in 1..Len(list) |->
        IF field \in TeamFields /\ ed.teams # ABSENT /\ list[i]._id = ed.teams
        THEN [list[i] EXCEPT ![field] = value]
        ELSE list[i]]

\* save: !editing.date || !editing.startTime || !editing.teams?.[0]?.name
\* || !editing.teams?.[1]?.name
MissingField(m) ==
    m.date = "" \/ m.startTime = "" \/ m.nameA = "" \/ m.nameB = ""

\* a call in flight: its number, its kind, the _id and the match it is for
AdminCall(n, kind, id, match) ==
    [n |-> n, kind |-> kind, id |-> id, match |-> match]

\* the _id the server gives to the match of the n-th call
CreatedId(n) == "n" \o NumberToString(n)

\* what the server answers: the match created with its new _id, the match
\* as updated, the match set live
CreatedBy(call) == [call.match EXCEPT !._id = CreatedId(call.n)]
UpdatedBy(call) == call.match
SetLiveBy(call) == [call.match EXCEPT !.status = "live"]

\* prev.map((m) => (m._id === updated._id ? updated : m))
ReplaceById(prev, updated) ==
    [i \in 1..Len(prev) |->
        IF prev[i]._id = updated._id THEN updated ELSE prev[i]]

\* prev.filter((m) => m._id !== id)
RECURSIVE RemoveById(_, _)
RemoveById(prev, id) ==
    IF Len(prev) = 0 THEN <<>>
    ELSE IF prev[1]._id = id THEN RemoveById(Tail(prev), id)
    ELSE <<prev[1]>> \o RemoveById(Tail(prev), id)

\* onDone that replaces the row and leaves the other rows as they are
onDone_NoDemotion(prev, updated) ==
    [i \in 1..Len(prev) |->
        IF prev[i]._id = updated._id THEN updated ELSE prev[i]]

\* onDone of SetLiveButton: the updated match replaces its row and every
\* other live row becomes scheduled
onDone(prev, updated) ==
    [i \in 1..Len(prev) |->
        IF prev[i]._id = updated._id THEN updated
        ELSE IF prev[i].status = "live"
             THEN [prev[i] EXCEPT !.status = "scheduled"]
             ELSE prev[i]]

\* the _ids of the rows of a list
RowIds(list) == {list[i]._id : i \in 1..Len(list)}

\* Admin mounts: items is empty and the list call is in flight; the call
\* will resolve to one of the lists
AdminMount(lists) ==
    /\ \E data \in lists :
        admin = [mounted |-> TRUE, list |-> "pending", data |-> data]
    /\ items = <<>>
    /\ editing = EditorClosed
    /\ inFlight = {}
    /\ issued = 0
    /\ liveLoading = {}

AdminInit == AdminMount(AdminLists)

\* MatchesAPI.list() resolved: setItems(data)
AdminListResolved ==
    /\ admin.list = "pending"
    /\ admin' = [admin EXCEPT !.list = "resolved"]
    /\ items' = admin.data
    /\ liveLoading' = liveLoading \cap RowIds(items')
    /\ UNCHANGED <<editing, inFlight, issued>>
    /\ UNCHANGED <<registerVars, footerVars, storeVars>>
    /\ UNCHANGED nonPagesVars

\* MatchesAPI.list() rejected: console.error
AdminListRejected ==
    /\ admin.list = "pending"
    /\ admin' = [admin EXCEPT !.list = "rejected"]
    /\ UNCHANGED <<items, editing, inFlight, issued, liveLoading>>
    /\ UNCHANGED <<registerVars, footerVars, storeVars>>
    /\ UNCHANGED nonPagesVars

\* "+ New Match"
StartCreate ==
    /\ admin.mounted
    /\ editing # startCreate
    /\ editing' = startCreate
    /\ UNCHANGED <<admin, items, inFlight, issued, liveLoading>>
    /\ UNCHANGED <<registerVars, footerVars, storeVars>>
    /\ UNCHANGED nonPagesVars

\* "Edit" of a row
StartEdit ==
    /\ \E i \in 1..Len(items) :
        /\ editing # startEdit(items[i])
        /\ editing' = startEdit(items[i])
    /\ UNCHANGED <<admin, items, inFlight, issued, liveLoading>>
    /\ UNCHANGED <<registerVars, footerVars, storeVars>>
    /\ UNCHANGED nonPagesVars

\* Editor: set(path, value) from an input or the status select
EditorSet ==
    /\ editing.open
    /\ \E field \in DOMAIN EditorValues : \E value \in EditorValues[field] :
        /\ editing.match[field] # value
        /\ editing' = [editing EXCEPT !.match[field] = value]
        /\ items' = SetInPlace(items, editing, field, value)
    /\ UNCHANGED <<admin, inFlight, issued, liveLoading>>
    /\ UNCHANGED <<registerVars, footerVars, storeVars>>
    /\ UNCHANGED nonPagesVars

\* Editor: Close or Cancel
EditorClose ==
    /\ editing.open
    /\ editing' = EditorClosed
    /\ UNCHANGED <<admin, items, inFlight, issued, liveLoading>>
    /\ UNCHANGED <<registerVars, footerVars, storeVars>>
    /\ UNCHANGED nonPagesVars

\* save up to its await: the alert, which changes nothing, or the update
\* or create call
Save ==
    /\ editing.open
    /\ IF MissingField(editing.match)
       THEN UNCHANGED <<inFlight, issued>>
       ELSE /\ issued < MaxRequests
            /\ issued' = issued + 1
            /\ inFlight' = inFlight \cup
                    {AdminCall(issued + 1,
                               IF editing.match._id # ABSENT THEN "update"
                               ELSE "create",
                               editing.match._id, editing.match)}
    /\ UNCHANGED <<admin, items, editing, liveLoading>>
    /\ UNCHANGED <<registerVars, footerVars, storeVars>>
    /\ UNCHANGED nonPagesVars

\* save whose create branch leaves the list as it was
SaveResolved_Dropped ==
    /\ \E call \in inFlight :
        /\ call.kind \in {"create", "update"}
        /\ inFlight' = inFlight \ {call}
        /\ items' = IF call.kind = "update"
                    THEN ReplaceById(items, UpdatedBy(call))
                    ELSE items
    /\ editing' = EditorClosed
    /\ liveLoading' = liveLoading \cap RowIds(items')
    /\ UNCHANGED <<admin, issued>>
    /\ UNCHANGED <<registerVars, footerVars, storeVars>>
    /\ UNCHANGED nonPagesVars

\* save after MatchesAPI.update or create resolved: the row is replaced,
\* or the new match is put first, and the Editor closes
SaveResolved ==
    /\ \E call \in inFlight :
        /\ call.kind \in {"create", "update"}
        /\ inFlight' = inFlight \ {call}
        /\ items' = IF call.kind = "update"
                    THEN ReplaceById(items, UpdatedBy(call))
                    ELSE <<CreatedBy(call)>> \o items
    /\ editing' = EditorClosed
    /\ liveLoading' = liveLoading \cap RowIds(items')
    /\ UNCHANGED <<admin, issued>>
    /\ UNCHANGED <<registerVars, footerVars, storeVars>>
    /\ UNCHANGED nonPagesVars

\* save whose catch closes the Editor
SaveRejected_ClosesEditor ==
    /\ \E call \in inFlight :
        /\ call.kind \in {"create", "update"}
        /\ inFlight' = inFlight \ {call}
    /\ editing' = EditorClosed
    /\ UNCHANGED <<admin, items, issued, liveLoading>>
    /\ UNCHANGED <<registerVars, footerVars, storeVars>>
    /\ UNCHANGED nonPagesVars

\* save after the call rejected: the alert, the Editor stays open
SaveRejected ==
    /\ \E call \in inFlight :
        /\ call.kind \in {"create", "update"}
        /\ inFlight' = inFlight \ {call}
    /\ UNCHANGED <<admin, items, editing, issued, liveLoading>>
    /\ UNCHANGED <<registerVars, footerVars, storeVars>>
    /\ UNCHANGED nonPagesVars

\* "Delete" of a row, confirmed: the remove call
Remove ==
    /\ issued < MaxRequests
    /\ \E i \in 1..Len(items) :
        /\ inFlight' = inFlight \cup
                {AdminCall(issued + 1, "remove", items[i]._id, items[i])}
    /\ issued' = issued + 1
    /\ UNCHANGED <<admin, items, editing, liveLoading>>
    /\ UNCHANGED <<registerVars, footerVars, storeVars>>
    /\ UNCHANGED nonPagesVars

\* remove after MatchesAPI.remove resolved
RemoveResolved ==
    /\ \E call \in inFlight :
        /\ call.kind = "remove"
        /\ inFlight' = inFlight \ {call}
        /\ items' = RemoveById(items, call.id)
    /\ liveLoading' = liveLoading \cap RowIds(items')
    /\ UNCHANGED <<admin, editing, issued>>
    /\ UNCHANGED <<registerVars, footerVars, storeVars>>
    /\ UNCHANGED nonPagesVars

\* remove after the call rejected
RemoveRejected ==
    /\ \E call \in inFlight :
        /\ call.kind = "remove"
        /\ inFlight' = inFlight \ {call}
    /\ UNCHANGED <<admin, items, editing, issued, liveLoading>>
    /\ UNCHANGED <<registerVars, footerVars, storeVars>>
    /\ UNCHANGED nonPagesVars

\* SetLiveButton.click up to its await: the button is neither active nor
\* loading
SetLiveClick ==
    /\ issued < MaxRequests
    /\ \E i \in 1..Len(items) :
        /\ items[i].status # "live"
        /\ items[i]._id \notin liveLoading
        /\ liveLoading' = liveLoading \cup {items[i]._id}
        /\ inFlight' = inFlight \cup
                {AdminCall(issued + 1, "setLive", items[i]._id, items[i])}
    /\ issued' = issued + 1
    /\ UNCHANGED <<admin, items, editing>>
    /\ UNCHANGED <<registerVars, footerVars, storeVars>>
    /\ UNCHANGED nonPagesVars

\* SetLiveButton.click after MatchesAPI.setLive resolved: onDone(upd)
SetLiveResolved ==
    /\ \E call \in inFlight :
        /\ call.kind = "setLive"
        /\ inFlight' = inFlight \ {call}
        /\ items' = onDone(items, SetLiveBy(call))
        /\ liveLoading' = liveLoading \ {call.id}
        /\ editing' = IF editing.teams = call.id
                      THEN [editing EXCEPT !.teams = ABSENT]
                      ELSE editing
    /\ UNCHANGED <<admin, issued>>
    /\ UNCHANGED <<registerVars, footerVars, storeVars>>
    /\ UNCHANGED nonPagesVars

\* SetLiveButton.click after the call rejected
SetLiveRejected ==
    /\ \E call \in inFlight :
        /\ call.kind = "setLive"
        /\ inFlight' = inFlight \ {call}
        /\ liveLoading' = liveLoading \ {call.id}
    /\ UNCHANGED <<admin, items, editing, issued>>
    /\ UNCHANGED <<registerVars, footerVars, storeVars>>
    /\ UNCHANGED nonPagesVars

----------------------------------------------------------------------------
(* The interval timers of the MatchCards of a list. A card is mounted and  *)
(* unmounted with its key; its effect has no dependencies, so it runs once *)
(* after the mount and its cleanup runs once at the unmount. The commit    *)
(* and the effects it schedules are one step: React runs pending effects   *)
(* before it handles the next event or render.                             *)

\* the matches a card is given as its prop
DeckMatches ==
    {[date |-> "2025-12-28", startTime |-> "19:30", status |-> status] :
        status \in {"scheduled", "live"}}

\* an active timer: the handle setInterval returned and the card whose
\* setNow its callback calls
Interval(handle, key) == [handle |-> handle, key |-> key]

\* clearInterval(t)
clearInterval(active, t) == {i \in active : i.handle # t}

InitDeck ==
    /\ CardIdle /\ UpcomingIdle /\ AuthIdle /\ RequestIdle /\ PagesIdle
    /\ DeckIdle

\* a card is mounted under a key: useEffect runs setInterval and keeps t
CardMount ==
    /\ handles < MaxHandles
    /\ \E key \in CardKeys : \E match \in DeckMatches :
        /\ ~cards[key].mounted
        /\ cards' = [cards EXCEPT ![key] =
               [mounted |-> TRUE, match |-> match, t |-> handles + 1,
                ticks |-> 0]]
        /\ intervals' = intervals \cup {Interval(handles + 1, key)}
    /\ handles' = handles + 1
    /\ UNCHANGED nonDeckVars

\* a mounted card is rendered again with another match prop: the effect
\* has the dependencies [] and does not run
CardRerender ==
    /\ \E key \in CardKeys : \E match \in DeckMatches :
        /\ cards[key].mounted
        /\ cards[key].match # match
        /\ cards' = [cards EXCEPT ![key].match = match]
    /\ UNCHANGED <<intervals, handles>>
    /\ UNCHANGED nonDeckVars

\* an unmount that runs no cleanup
CardUnmount_NoCleanup ==
    /\ \E key \in CardKeys :
        /\ cards[key].mounted
        /\ cards' = [cards EXCEPT ![key] = NoCard]
        /\ intervals' = intervals
    /\ UNCHANGED handles
    /\ UNCHANGED nonDeckVars

\* a card is unmounted: the cleanup of its effect runs clearInterval(t)
CardUnmount ==
    /\ \E key \in CardKeys :
        /\ cards[key].mounted
        /\ cards' = [cards EXCEPT ![key] = NoCard]
        /\ intervals' = clearInterval(intervals, cards[key].t)
    /\ UNCHANGED handles
    /\ UNCHANGED nonDeckVars

\* an active timer fires: setNow(new Date()) of the card that set it,
\* which is counted while that card is mounted
IntervalFires ==
    /\ \E i \in intervals :
        /\ cards[i.key].mounted /\ cards[i.key].t = i.handle
        /\ cards[i.key].ticks < MaxTicks
        /\ cards' = [cards EXCEPT ![i.key].ticks = @ + 1]
    /\ UNCHANGED <<intervals, handles>>
    /\ UNCHANGED nonDeckVars

NextDeck == CardMount \/ CardRerender \/ CardUnmount \/ IntervalFires

SpecDeck == InitDeck /\ [][NextDeck]_vars

----------------------------------------------------------------------------
(* The Admin page under any use, calls issued while others are in flight   *)
(* included                                                                *)

InitAdmin ==
    /\ CardIdle /\ UpcomingIdle /\ AuthIdle /\ RequestIdle
    /\ RegisterIdle /\ FooterIdle /\ StoreIdle /\ DeckIdle
    /\ AdminInit

NextAdmin ==
    \/ AdminListResolved \/ AdminListRejected \/ StartCreate \/ StartEdit
    \/ EditorSet \/ EditorClose \/ Save \/ SaveResolved \/ SaveRejected
    \/ Remove \/ RemoveResolved \/ RemoveRejected
    \/ SetLiveClick \/ SetLiveResolved \/ SetLiveRejected

SpecAdmin == InitAdmin /\ [][NextAdmin]_vars

----------------------------------------------------------------------------
(* The rows of the Admin page: the Delete and Set Live buttons of a longer *)
(* list, under any use                                                     *)

InitRows ==
    /\ CardIdle /\ UpcomingIdle /\ AuthIdle /\ RequestIdle
    /\ RegisterIdle /\ FooterIdle /\ StoreIdle /\ DeckIdle
    /\ AdminMount(LongAdminLists)

NextRows ==
    \/ AdminListResolved \/ AdminListRejected
    \/ Remove \/ RemoveResolved \/ RemoveRejected
    \/ SetLiveClick \/ SetLiveResolved \/ SetLiveRejected

SpecRows == InitRows /\ [][NextRows]_vars

----------------------------------------------------------------------------
(* The pages and forms, followed one at a time: Register, the Footer      *)
(* subscribe form, the matches store, the first render of AuthProvider,    *)
(* and the Admin page used by someone who waits for the answer to a call   *)
(* before touching the page again                                          *)

\* no create, update, remove or setLive call of the Admin page is in flight
Settled == inFlight = {}

StartCreateSettled == Settled /\ StartCreate
StartEditSettled == Settled /\ StartEdit
EditorSetSettled == Settled /\ EditorSet
EditorCloseSettled == Settled /\ EditorClose
SaveSettled == Settled /\ Save
RemoveSettled == Settled /\ Remove
SetLiveClickSettled == Settled /\ SetLiveClick

InitPages ==
    /\ CardIdle /\ UpcomingIdle /\ RequestIdle /\ DeckIdle
    /\ \/ RegisterInit /\ FooterIdle /\ StoreIdle /\ AdminIdle /\ AuthIdle
       \/ RegisterIdle /\ FooterInit /\ StoreIdle /\ AdminIdle /\ AuthIdle
       \/ RegisterIdle /\ FooterIdle /\ StoreInit /\ AdminIdle /\ AuthIdle
       \/ RegisterIdle /\ FooterIdle /\ StoreIdle /\ AdminInit /\ AuthIdle
       \/ RegisterIdle /\ FooterIdle /\ StoreIdle /\ AdminIdle /\ AuthInit

NextPages ==
    \/ RegisterType \/ RegisterSubmit \/ RegisterResolved
    \/ RegisterRejected \/ RegisterRedirect
    \/ FooterType \/ FooterSubmit \/ FooterResolved \/ FooterRejected
    \/ FooterTimer
    \/ GetMatchesCall \/ UpsertMatchCall \/ DeleteMatchCall
    \/ AdminListResolved \/ AdminListRejected
    \/ StartCreateSettled \/ StartEditSettled \/ EditorSetSettled
    \/ EditorCloseSettled \/ SaveSettled \/ SaveResolved \/ SaveRejected
    \/ RemoveSettled \/ RemoveResolved \/ RemoveRejected
    \/ SetLiveClickSettled \/ SetLiveResolved \/ SetLiveRejected

SpecPages == InitPages /\ [][NextPages]_vars

----------------------------------------------------------------------------
(* Claims about the match card, checked under SpecCountdown *)

\* start instant minus now, in ms, of the card as it stands
CardRemaining == DateDiff(StartDateOf(cardMatch), cardNow)

\* the two decimal digits of n < 100
TwoDigits(n) == Digit[(n \div 10) + 1] \o Digit[(n % 10) + 1]

\* the decimal numeral of n < 1000, zero-padded to two digits
AtLeastTwoDigits(n) ==
    IF n < 100 THEN TwoDigits(n)
    ELSE Digit[(n \div 100) + 1] \o TwoDigits(n % 100)

\* C1: a match declared completed renders state completed and the label
\* "Ended", whatever its start instant and whatever now is.
C1_CompletedIsEnded ==
    StatusOf(cardMatch) = "completed" =>
        /\ cardView.state = "completed"
        /\ cardView.countdownLabel = "Ended"

\* a completed match rendered on a tick before its start instant
C1_Witness ==
    /\ cardMatch.status = "completed"
    /\ CardRemaining > 0
    /\ cardTicks > 0
    /\ cardView.countdownLabel = "Ended"

\* C2: a match declared live renders state live and the label
\* "In Progress", before, at and after its start instant.
C2_LiveIsInProgress ==
    StatusOf(cardMatch) = "live" =>
        /\ cardView.state = "live"
        /\ cardView.countdownLabel = "In Progress"

\* a live match rendered more than ten minutes before its start instant
C2_Witness ==
    /\ cardMatch.status = "live"
    /\ CardRemaining > 10 * MsPerMinute
    /\ cardView.state = "live"
    /\ cardView.countdownLabel = "In Progress"

\* C3: a match declared scheduled whose start instant is now or has passed
\* renders state live and the label "Starting".
C3_StartedIsStarting ==
    (StatusOf(cardMatch) = "scheduled" /\ CardRemaining <= 0) =>
        /\ cardView.state = "live"
        /\ cardView.countdownLabel = "Starting"

\* a scheduled match rendered at exactly its start instant
C3_Witness ==
    /\ cardMatch.status = "scheduled"
    /\ CardRemaining = 0
    /\ cardView.state = "live"
    /\ cardView.countdownLabel = "Starting"

\* C4: for a match declared scheduled with time remaining, the state is
\* soon exactly when at most ten minutes remain and scheduled exactly when
\* more than ten minutes remain.
C4_SoonWithinTenMinutes ==
    (StatusOf(cardMatch) = "scheduled" /\ CardRemaining > 0) =>
        /\ cardView.state = "soon" <=> CardRemaining <= 10 * MsPerMinute
        /\ cardView.state = "scheduled" <=> CardRemaining > 10 * MsPerMinute

\* a scheduled match rendered exactly ten minutes before its start
C4_Witness ==
    /\ cardMatch.status = "scheduled"
    /\ CardRemaining = 10 * MsPerMinute
    /\ cardView.state = "soon"

\* C5 as stated: for a match declared scheduled with time remaining the
\* label is HH:MM:SS from one hour on and MM:SS below, every field exactly
\* two digits (so the label has 8 or 5 characters).
C5_TwoDigitFields ==
    (StatusOf(cardMatch) = "scheduled" /\ CardRemaining > 0) =>
        LET hours == CardRemaining \div MsPerHour
            minutes == (CardRemaining \div MsPerMinute) % 60
            seconds == (CardRemaining \div MsPerSecond) % 60
        IN  /\ Len(cardView.countdownLabel) = (IF CardRemaining >= MsPerHour THEN 8 ELSE 5)
            /\ hours < 100 =>
                   cardView.countdownLabel =
                       IF CardRemaining >= MsPerHour
                       THEN TwoDigits(hours) \o ":" \o TwoDigits(minutes)
                                \o ":" \o TwoDigits(seconds)
                       ELSE TwoDigits(minutes) \o ":" \o TwoDigits(seconds)

\* C5 as amended: the label is H:MM:SS from one hour on and MM:SS below,
\* minutes and seconds exactly two digits, and the hours field H the
\* decimal numeral of the whole hours zero-padded to at least two digits:
\* two digits below 100 hours, all its digits from 100 hours on.
C5_AtLeastTwoDigitFields ==
    (StatusOf(cardMatch) = "scheduled" /\ CardRemaining > 0) =>
        LET hours == CardRemaining \div MsPerHour
            minutes == (CardRemaining \div MsPerMinute) % 60
            seconds == (CardRemaining \div MsPerSecond) % 60
        IN  cardView.countdownLabel =
                IF CardRemaining >= MsPerHour
                THEN AtLeastTwoDigits(hours) \o ":" \o TwoDigits(minutes)
                         \o ":" \o TwoDigits(seconds)
                ELSE TwoDigits(minutes) \o ":" \o TwoDigits(seconds)

\* a scheduled match rendered exactly 100 hours before its start
C5_Witness ==
    /\ cardMatch.status = "scheduled"
    /\ CardRemaining = 100 * MsPerHour
    /\ cardView.countdownLabel = "100:00:00"

----------------------------------------------------------------------------
(* Claims about the Upcoming view, checked under SpecUpcoming *)

Range(list) == {list[k] : k \in 1..Len(list)}

\* the four decimal digits of a year from 1000 to 9999
FourDigits(y) ==
    Digit[(y \div 1000) + 1] \o Digit[((y \div 100) % 10) + 1] \o TwoDigits(y % 100)

\* yyyy-mm-dd of a calendar day
RefIso(day) ==
    FourDigits(day.y) \o "-" \o TwoDigits(day.mo + 1) \o "-" \o TwoDigits(day.d)

MalformedDates == Range(MalformedDateList)

LenientDates == Range(LenientDateList)

\* does the string name the calendar day
NamesDay(str, day) ==
    \/ str = RefIso(day)
    \/ [str |-> str, day |-> day] \in LenientDates

\* the matches of the list whose date names the day, in order
RECURSIVE RefSelect(_, _)
RefSelect(list, day) ==
    IF list = <<>> THEN <<>>
    ELSE (IF NamesDay(Head(list).date, day) THEN <<Head(list)>> ELSE <<>>)
             \o RefSelect(Tail(list), day)

\* the day after a calendar day
RefNextDay(day) ==
    LET leap == (day.y % 4 = 0 /\ day.y % 100 # 0) \/ day.y % 400 = 0
        lengths == <<31, IF leap THEN 29 ELSE 28, 31, 30, 31, 30,
                     31, 31, 30, 31, 30, 31>>
    IN  IF day.d < lengths[day.mo + 1] THEN [day EXCEPT !.d = day.d + 1]
        ELSE IF day.mo < 11 THEN [y |-> day.y, mo |-> day.mo + 1, d |-> 1]
        ELSE [y |-> day.y + 1, mo |-> 0, d |-> 1]

RECURSIVE RefAddDays(_, _)
RefAddDays(day, n) == IF n = 0 THEN day ELSE RefAddDays(RefNextDay(day), n - 1)

\* C7: a match whose date names no calendar day is returned for none of
\* the 7 day indices: whichever index is selected, the rendered list holds
\* no match with a malformed date, and no such match of the collection is
\* accepted for any day of the window.
C7_MalformedDatesExcluded ==
    /\ \A m \in Range(upView.filtered) : m.date \notin MalformedDates
    /\ \A m \in Range(upView.effectiveMatches) :
           m.date \in {"2025-13-40", "2025-12-28-1", "2025-12"} =>
               \A i \in 0..6 : ~DayFilterAccepts(m, days[i + 1])

\* the collection holds the malformed dates, among them 2025-13-40, and
\* well-formed ones; the rendered list is not empty
C7_Witness ==
    /\ \E m \in Range(upView.effectiveMatches) : m.date = "2025-13-40"
    /\ \E m \in Range(upView.effectiveMatches) : m.date = "2025-12-28-1"
    /\ Len(upView.filtered) = 2
    /\ upView.filtered[1].date = "2025-12-28"
    /\ selectedDayIndex = 0

\* C8: the rendered list is exactly the matches of the collection whose
\* date names the selected day of the window, in order, whatever their
\* start time and status and whatever the time of day; and a listed match
\* is accepted for no other day of the window.
C8_FilterByCalendarDay ==
    /\ upView.filtered
           = RefSelect(upView.effectiveMatches, DayOf(days[selectedDayIndex + 1]))
    /\ \A m \in Range(upView.filtered) :
       \A i \in 0..6 :
           i # selectedDayIndex => ~DayFilterAccepts(m, days[i + 1])

\* two matches of one day with different start times and statuses are both
\* listed, on a tab other than today's, after the clock has moved on
C8_Witness ==
    /\ Len(upView.filtered) = 2
    /\ upView.filtered[1].date = upView.filtered[2].date
    /\ upView.filtered[1].startTime # upView.filtered[2].startTime
    /\ upView.filtered[1].status # upView.filtered[2].status
    /\ selectedDayIndex = 3
    /\ upSteps > 0

\* C9: the window is the day of the mount and the 6 days after it, each at
\* local midnight, in every state of the mounted view: clock steps past
\* midnight, the arrival of the API list and tab selections leave it as it
\* was built.
C9_WindowFixedAtMount ==
    /\ Len(days) = 7
    /\ \A i \in 0..6 :
           /\ DayOf(days[i + 1]) = RefAddDays(DayOf(upMountNow), i)
           /\ days[i + 1].ms = 0

\* midnight has passed since the mount, the API list has arrived and a tab
\* other than the first is selected; the window still starts at the mount day
C9_Witness ==
    /\ DayOf(upClock) # DayOf(upMountNow)
    /\ apiStatus = "resolved"
    /\ Len(apiMatches) > 0
    /\ selectedDayIndex = 3
    /\ DayOf(days[1]) = DayOf(upMountNow)

----------------------------------------------------------------------------
(* Claims about the session store, checked under SpecAuth *)

\* C10: after logout, from whatever session state, the token and the user
\* in memory are null, and neither the token key nor the user key is in
\* storage once the effects of that render have run.
C10_LogoutClearsSession ==
    authLast = "logout" =>
        /\ token = NULL
        /\ user = NullUser
        /\ TokenStoreAfter(lsToken, tokenEffect) = ABSENT
        /\ UserStoreAfter(lsUser, userEffect) = ABSENT
        /\ (~tokenEffect.pending /\ ~userEffect.pending) =>
               (lsToken = ABSENT /\ lsUser = ABSENT)

\* logout has run and so have its effects: memory and storage are empty
C10_Witness ==
    /\ authLast = "logout"
    /\ ~tokenEffect.pending
    /\ ~userEffect.pending
    /\ token = NULL
    /\ user = NullUser
    /\ lsToken = ABSENT
    /\ lsUser = ABSENT

\* the provider has just been constructed: nothing but its first render
\* has happened, and both effects of that render still wait
AtStartup == authLast = "mount" /\ tokenEffect.pending /\ userEffect.pending

\* no effect waits to run
EffectsHaveRun == ~tokenEffect.pending /\ ~userEffect.pending

\* C21 as stated: once the effects have run the token key is present
\* exactly when the token in memory is not null and then holds it, and the
\* user key likewise; at startup the values in memory are the stored ones.
C21_StorageMirrorsSession ==
    /\ EffectsHaveRun =>
           /\ (lsToken # ABSENT) <=> (token # NULL)
           /\ token # NULL => lsToken = token
           /\ (lsUser # ABSENT) <=> (user # NullUser)
           /\ user # NullUser => lsUser = JSONstringify(user)
    /\ AtStartup =>
           /\ token = GetItem(lsToken)
           /\ lsUser # ABSENT => ~JSONparse(lsUser).threw
           /\ user = IF lsUser = ABSENT THEN NullUser
                     ELSE JSONparse(lsUser).value

\* C21, amended: once the effects have run the token key is present
\* exactly when the token in memory is truthy (neither null, undefined nor
\* the empty string) and then holds it, and the user key is present exactly
\* when the user in memory is an object and then holds its JSON text; at
\* startup the token in memory is the stored one when that is a non-empty
\* string and null otherwise, and the user in memory is the value the
\* stored text parses to when that is an object and null otherwise.
C21_StorageMirrorsTruthySession ==
    /\ EffectsHaveRun =>
           /\ (lsToken # ABSENT) <=> TruthyToken(token)
           /\ TruthyToken(token) => lsToken = token
           /\ (lsUser # ABSENT) <=> TruthyUser(user)
           /\ TruthyUser(user) => lsUser = JSONstringify(user)
    /\ AtStartup =>
           /\ token = IF lsToken \in {ABSENT, ""} THEN NULL ELSE lsToken
           /\ user = IF lsUser = ABSENT \/ JSONparse(lsUser).threw
                        \/ JSONparse(lsUser).value.kind # "object"
                     THEN NullUser
                     ELSE JSONparse(lsUser).value

\* a login has set a token and a user, the effects have run, and both
\* keys hold them
C21_Witness ==
    /\ authLast = "login"
    /\ EffectsHaveRun
    /\ token = "tokB" /\ lsToken = "tokB"
    /\ user = UserObject("admin") /\ lsUser = JSONstringify(user)


----------------------------------------------------------------------------
(* Claims about the admin route and the request headers, checked under     *)
(* SpecAuth                                                                *)

\* the session admits to the admin route
Admitted == TruthyToken(token) /\ IsAdmin(user)

\* C11: the Admin panel is rendered only while the token is present and
\* user.role is 'admin'; when the admin route is asked for without that,
\* the router is at /login and state.from is the pathname asked for.
C11_AdminRouteGuarded ==
    /\ PageOf(location.pathname) = "Admin" => Admitted
    /\ (requested \in AdminPaths /\ ~Admitted) =>
           location = Location("/login", requested)

\* a signed-in viewer asked for /admin/ and was sent to /login with it
C11_Witness ==
    /\ TruthyToken(token)
    /\ user = UserObject("viewer")
    /\ requested = "/admin/"
    /\ location = Location("/login", "/admin/")

\* C12: every request carries 'Authorization: Bearer T' when the session
\* holds the token T at the moment it is issued, and no Authorization
\* header when the session holds none.
C12_BearerFromSession ==
    lastRequest.authorization =
        IF TruthyToken(lastRequest.held) THEN "Bearer " \o lastRequest.held
        ELSE ABSENT


----------------------------------------------------------------------------
(* Claims about request, checked under SpecRequest *)

\* the message the claim names: the body text, or the status text when
\* the body is empty
BodyOrStatusText(res) == IF res.body = "" THEN res.statusText ELSE res.body

\* C13 as stated: a settled request resolved to null on 204, resolved to
\* the parsed JSON body on every other 2xx response, and rejected with the
\* body text, or the status text for an empty body, on every other status.
C13_RequestOutcome ==
    outcome.state # "pending" =>
        IF response.status = 204 THEN outcome = Resolved(JsonNull)
        ELSE IF ResOk(response.status)
        THEN outcome.state = "resolved" /\ outcome.value = ResJson(response.body).value
        ELSE outcome = Rejected(BodyOrStatusText(response))

\* C13, amended: as C13, but a 2xx response other than 204 resolves to the
\* parsed body only when the body is JSON text, and rejects otherwise.
C13_RequestOutcomeOfJson ==
    outcome.state # "pending" =>
        IF response.status = 204 THEN outcome = Resolved(JsonNull)
        ELSE IF ResOk(response.status)
        THEN IF ResJson(response.body).threw
             THEN outcome.state = "rejected"
             ELSE outcome = Resolved(ResJson(response.body).value)
        ELSE outcome = Rejected(BodyOrStatusText(response))

\* a 404 with an empty body rejected with its status text
C13_Witness ==
    /\ response = HttpResponse(404, "Not Found", "")
    /\ outcome = Rejected("Not Found")

----------------------------------------------------------------------------
(* Claims about the forms, the matches store and the first render of       *)
(* AuthProvider, checked under SpecPages                                   *)

\* emails that are malformed: no @, no dot after the @, two @, a blank
\* inside, or an empty part
MalformedEmails ==
    {"", "fan", "fan@npl", "fan@@npl.np", "f an@npl.np", "@npl.np",
     "fan@npl."}

\* C14: a submission that fails validation issues no call and changes no
\* stored data: Register.submit with password # confirm issues no
\* register call, Admin save with a missing date, start time or team name
\* issues no create or update call and leaves the list as it is, and the
\* Footer handleSubmit with a malformed email calls no onSubscribe.
C14_InvalidSubmitsNothing ==
    [][/\ (RegisterSubmit /\ reg.password # reg.confirm) =>
              /\ reg'.calls = reg.calls
              /\ reg'.inFlight = reg.inFlight
       /\ (Save /\ MissingField(editing.match)) =>
              /\ inFlight' = inFlight
              /\ issued' = issued
              /\ items' = items
       /\ (FooterSubmit /\ foot.email \in MalformedEmails) =>
              /\ foot'.calls = foot.calls
              /\ foot'.inFlight = foot.inFlight
              /\ foot'.subscribed = foot.subscribed
       /\ (RegisterSubmit \/ Save \/ FooterSubmit) =>
              lsMatches' = lsMatches]_vars

\* Register was submitted with two different passwords, and no register
\* call has been issued
C14_Witness ==
    /\ reg.mounted
    /\ reg.password # reg.confirm
    /\ reg.error = "Passwords do not match"
    /\ reg.calls = 0

\* the matches of a list
MatchesOf(list) == {list[i] : i \in 1..Len(list)}

\* C16: after a create resolved the Admin list includes the created match
\* and after a remove resolved it holds no match with the removed _id;
\* after upsertMatch(m) getMatches() includes m and after deleteMatch(id)
\* getMatches() holds no match with that id.
C16_CrudRoundTrip ==
    [][/\ \A call \in inFlight \ inFlight' :
            (call.kind = "create" /\ SaveResolved)
                => CreatedBy(call) \in MatchesOf(items')
       /\ \A call \in inFlight \ inFlight' :
            (call.kind = "remove" /\ RemoveResolved)
                => call.id \notin RowIds(items')
       /\ storeUsed =>
            /\ \A match \in StoreMatches :
                (lsMatches' = upsertMatch(lsMatches, match) /\ UpsertMatchCall)
                    => match \in MatchesOf(getMatches(lsMatches'))
            /\ \A id \in StoreIds :
                (lsMatches' = deleteMatch(lsMatches, id) /\ DeleteMatchCall)
                    => \A m \in MatchesOf(getMatches(lsMatches')) : m.id # id
      ]_vars

\* the match the first call created is the first row of the Admin list
C16_Witness ==
    /\ Len(items) >= 1
    /\ items[1]._id = CreatedId(1)
    /\ inFlight = {}

\* the ids of a list are pairwise distinct; a match without id counts as
\* having the id undefined
DistinctIds(list) ==
    \A i, j \in 1..Len(list) : list[i].id = list[j].id => i = j

\* the positions of a list that hold a match with the id
PositionsOf(list, id) == {i \in 1..Len(list) : list[i].id = id}

\* C22: the stored list has pairwise distinct ids after any sequence of
\* upsertMatch and deleteMatch calls; upsertMatch with an id that is in
\* the list replaces that element where it is, with the length, the order
\* and every other element unchanged, and otherwise appends one element.
C22_DistinctStoredIds ==
    /\ [](storeUsed => DistinctIds(getMatches(lsMatches)))
    /\ [][storeUsed =>
            \A match \in StoreMatches :
                (lsMatches' = upsertMatch(lsMatches, match) /\ UpsertMatchCall)
                => LET old == getMatches(lsMatches)
                       new == getMatches(lsMatches')
                       at == PositionsOf(old, match.id)
                   IN  IF at # {}
                       THEN /\ Len(new) = Len(old)
                            /\ \A i \in 1..Len(old) :
                                   new[i] = IF i \in at THEN match ELSE old[i]
                       ELSE /\ Len(new) = Len(old) + 1
                            /\ SubSeq(new, 1, Len(old)) = old
                            /\ new[Len(new)] = match
         ]_vars

\* the list that started as a live, b scheduled holds a scheduled and b
\* live in the same order: both were replaced where they were
C22_Witness ==
    /\ storeUsed
    /\ getMatches(lsMatches) =
           <<StoredMatch("a", "scheduled"), StoredMatch("b", "live")>>

\* texts of the user key that are no JSON
NotJsonUsers == {"{bad"}

\* C17: getMatches returns the empty list when the matches key is missing,
\* holds text that is no JSON, or holds JSON that is no array; AuthProvider
\* starts with user null when the user key holds text that is no JSON.
C17_ReadsNeverRaise ==
    /\ [][(GetMatchesCall /\ lsMatches \in {ABSENT, ""} \cup NotJsonTexts
                                              \cup NotArrayTexts)
              => listing' = Listing(<<>>)]_vars
    /\ []((authLast = "mount" /\ lsUser \in NotJsonUsers) => user = NullUser)

\* getMatches was called on a key that holds a JSON object and returned
\* the empty list
C17_Witness ==
    /\ lsMatches \in NotArrayTexts
    /\ lsMatches # "null"
    /\ listing = Listing(<<>>)

\* C24: a rejected create, update, remove or setLive call leaves the Admin
\* list as it is, and a rejected save leaves the Editor as it is: open,
\* with the match as the user edited it.
C24_RejectionChangesNothing ==
    [][/\ (SaveRejected \/ RemoveRejected \/ SetLiveRejected) =>
              items' = items /\ editing' = editing
       /\ \A call \in inFlight \ inFlight' :
              (call.kind \in {"create", "update"} /\ SaveRejected
                   /\ editing.open /\ editing.match = call.match)
              => editing'.open /\ editing'.match = call.match
      ]_vars

\* one call was issued, for a new match that is live, and is no longer in
\* flight; the list is the one the API returned and the Editor still
\* holds the match
C24_Witness ==
    /\ issued = 1
    /\ inFlight = {}
    /\ admin.list = "resolved"
    /\ items = admin.data
    /\ editing.open
    /\ editing.match = AdminMatch(ABSENT, "live")

----------------------------------------------------------------------------
(* Claims about the timers of the cards, checked under SpecDeck *)

\* the active timers whose callback belongs to the card under a key
TimersOf(key) == {i \in intervals : i.key = key}

\* C18: each mounted card owns exactly one active interval timer, no
\* unmounted card owns one, and the number of active timers is the number
\* of mounted cards.
C18_OneTimerPerCard ==
    /\ \A key \in CardKeys :
        Cardinality(TimersOf(key)) = IF cards[key].mounted THEN 1 ELSE 0
    /\ Cardinality(intervals) =
           Cardinality({key \in CardKeys : cards[key].mounted})

\* a card was mounted, unmounted and mounted again under m1 and rendered
\* with another match, while the card under m2 was unmounted
C18_Witness ==
    /\ cards["m1"].mounted /\ cards["m1"].t = 3
    /\ cards["m1"].match.status = "live"
    /\ ~cards["m2"].mounted
    /\ handles = 3
    /\ Cardinality(intervals) = 1

----------------------------------------------------------------------------
(* Claims about the Admin page, checked under SpecAdmin *)

\* the calls in flight of one kind for one row
CallsOf(kinds, id) == {call \in inFlight : call.kind \in kinds /\ call.id = id}

\* C15: while a request from a control of the Admin page is pending, no
\* second request from the same control is issued: at most one save call
\* is in flight, and for each row at most one remove call and at most one
\* setLive call.
C15_OneRequestPerControl ==
    /\ Cardinality({call \in inFlight : call.kind \in {"create", "update"}}) <= 1
    /\ \A id \in RowIds(items) :
        /\ Cardinality(CallsOf({"remove"}, id)) <= 1
        /\ Cardinality(CallsOf({"setLive"}, id)) <= 1

\* C19: every match the Editor submits through create or update has a
\* status that is one of scheduled, live, completed.
C19_SubmittedStatus ==
    \A call \in inFlight :
        call.kind \in {"create", "update"} =>
            call.match.status \in {"scheduled", "live", "completed"}

\* the rows of a list whose status is live
LiveRows(list) == {i \in 1..Len(list) : list[i].status = "live"}

\* C20: the list MatchesAPI.list() returned holds at most one live match,
\* and however create, update, remove and setLive calls resolve, the Admin
\* list holds at most one live match.
C20_AtMostOneLive ==
    Cardinality(LiveRows(admin.data)) <= 1 =>
        Cardinality(LiveRows(items)) <= 1

----------------------------------------------------------------------------
(* Claims about the rows of the Admin page, checked under SpecRows *)

\* the _ids of the rows of a list whose status is live
LiveIds(list) == {list[i]._id : i \in LiveRows(list)}

\* C23: when a setLive response for a match is applied, the row of the
\* match is replaced by the response, every other row that was live
\* becomes scheduled and every other row is unchanged, whatever else is in
\* flight; when the match has a row, it is the one live row afterwards.
C23_SetLiveDemotesOthers ==
    [][\A call \in inFlight \ inFlight' :
          (call.kind = "setLive" /\ SetLiveResolved) =>
              /\ Len(items') = Len(items)
              /\ \A i \in 1..Len(items) :
                    items'[i] =
                        IF items[i]._id = call.id THEN SetLiveBy(call)
                        ELSE IF items[i].status = "live"
                        THEN [items[i] EXCEPT !.status = "scheduled"]
                        ELSE items[i]
              /\ call.id \in RowIds(items) => LiveIds(items') = {call.id}
      ]_vars

\* setLive was clicked for m1 and for m3 while m2 was live; the response
\* for m3 was applied first and the one for m1 last
C23_Witness ==
    /\ issued = 2
    /\ inFlight = {}
    /\ Len(items) = 3
    /\ items[1] = AdminMatch("m1", "live")
    /\ items[2] = AdminMatch("m2", "scheduled")
    /\ items[3] = AdminMatch("m3", "scheduled")

----------------------------------------------------------------------------
(* Claims about the ticks of the match card, checked under SpecCountdown *)

\* the order of the derived states a scheduled match goes through
StateRank(state) ==
    CASE state = "scheduled" -> 0
      [] state = "soon" -> 1
      [] state = "live" -> 2
      [] OTHER -> 3

\* C25: while the declared status of a match is scheduled, each tick moves
\* the derived state forward or leaves it (scheduled, then soon, then
\* live), never to completed, and the derived state is live in every
\* render at or after the start instant.
C25_ScheduledOnlyAdvances ==
    /\ [](cardMatch.status = "scheduled" =>
            /\ cardView.state \in {"scheduled", "soon", "live"}
            /\ (DateDiff(StartDateOf(cardMatch), cardNow) <= 0
                    => cardView.state = "live"))
    /\ [][(CardTick /\ cardMatch.status = "scheduled") =>
              StateRank(cardView'.state) >= StateRank(cardView.state)]_vars

\* a scheduled match mounted one second before its start, two ticks later
C25_Witness ==
    /\ cardMatch.status = "scheduled"
    /\ cardTicks = 2
    /\ cardView.state = "live"
    /\ cardView.diffMs >= 0 - 1000

----------------------------------------------------------------------------
(* Claims about the list call of the Upcoming view, checked under          *)
(* SpecUpcoming                                                            *)

\* the lists a render since the mount falls back to: the matches prop, or
\* the demo matches of the clock of that render
FallbackLists ==
    IF upProp.given THEN {upProp.list}
    ELSE {demoMatches(DateAddMs(upMountNow, k * ClockStepMs)) : k \in 0..upSteps}

\* C26: the view lists the API matches exactly when the list call resolved
\* with a list that is not empty, and a fallback list (the prop, or the demo
\* matches) while the call is pending, after it rejected and after it
\* resolved with the empty list; a rejected call sets no state and leaves
\* the rendered view as it is.
C26_ApiListOrFallback ==
    /\ [](IF apiStatus = "resolved" /\ Len(apiMatches) > 0
          THEN /\ upView.effectiveMatches = apiMatches
               /\ upView.effectiveMatches \notin FallbackLists
          ELSE /\ upView.effectiveMatches \in FallbackLists
               /\ apiMatches = <<>>)
    /\ [][UpListRejected =>
              /\ apiStatus' = "rejected"
              /\ UNCHANGED <<apiMatches, upView, days, selectedDayIndex>>]_vars

\* the list call rejected, no matches prop was given, and the view lists
\* the six demo matches of the day of the mount
C26_Witness ==
    /\ apiStatus = "rejected"
    /\ ~upProp.given
    /\ Len(upView.effectiveMatches) = 6
    /\ upView.effectiveMatches = demoMatches(upMountNow)

----------------------------------------------------------------------------
(* Claims about the login form, checked under SpecAuth *)

\* C27: a login that succeeded sets the token and the user to values of
\* the response and navigates an admin to the path closed over by the
\* submit when that path is an admin path, an admin to '/admin' otherwise,
\* and everyone else to '/live'; with a truthy token the routes settle on
\* that path.
C27_LoginNavigates ==
    [][LoginSucceeded =>
          /\ token' \in ResponseTokens
          /\ user' \in ResponseUsers
          /\ requested' =
                 (IF user'.kind = "object" /\ user'.role = "admin"
                  THEN IF loginPending.from \in {"/admin", "/admin/"}
                       THEN loginPending.from
                       ELSE "/admin"
                  ELSE "/live")
          /\ (TruthyToken(token') => location'.pathname = requested')
      ]_vars

\* an admin who had asked for '/admin/' is there after the login
C27_Witness ==
    /\ authLast = "login"
    /\ ~loginPending.pending
    /\ token = "tokB"
    /\ IsAdmin(user)
    /\ requested = "/admin/"
    /\ location = Location("/admin/", UNDEFINED)

\* C28: a login that was rejected leaves the token, the user, both keys
\* of the storage and the location as they are, clears the pending flag,
\* and the form that issued it, when it is still mounted, shows 'Invalid
\* credentials'.
C28_RejectedLoginKeepsSession ==
    [][LoginRejected =>
          /\ UNCHANGED <<token, user, lsToken, lsUser, location, requested>>
          /\ ~loginPending'.pending
          /\ (loginPending.attached =>
                 loginPending'.error = "Invalid credentials")
      ]_vars

\* the login page shows the error, nothing is pending and nobody is
\* signed in
C28_Witness ==
    /\ loginPending.error = "Invalid credentials"
    /\ ~loginPending.pending
    /\ PageOf(location.pathname) = "Login"
    /\ token = NULL
    /\ user = NullUser

----------------------------------------------------------------------------
(* Claims about the status of the Footer form, checked under SpecPages *)

\* disabled={status === "loading" || status === "success"}
FooterButtonDisabled == foot.status \in {"loading", "success"}

\* C30: while a subscription of the Footer is in flight the status is
\* loading and the button is disabled, and a timer set when an earlier
\* call settled leaves the status of a call in flight as it is.
C30_LoadingUntilSettled ==
    /\ [](foot.inFlight > 0 => foot.status = "loading" /\ FooterButtonDisabled)
    /\ [][(FooterTimer /\ foot.inFlight > 0) => foot'.status = foot.status]_vars

----------------------------------------------------------------------------
(* Claims about the Editor and the rows of the Admin page, checked under   *)
(* SpecPages                                                               *)

\* C29: opening the Editor on a row, setting a field of the match or of a
\* team in it, and closing or cancelling it leave every row of the list
\* as it is.
C29_EditsLeaveRows ==
    [][(editing' # editing /\ (StartEdit \/ EditorSet \/ EditorClose))
          => items' = items]_vars

\* the Editor holds row m1 with another status and without the name of
\* team B, and the list still has the row as the API returned it
C29_Witness ==
    /\ editing.open
    /\ editing.match._id = "m1"
    /\ editing.match.status = "completed"
    /\ editing.match.nameB = ""
    /\ Len(items) = 2
    /\ items[1] = AdminMatch("m1", "scheduled")

====
